---------------------------- MODULE Spec2Model ----------------------------
(***************************************************************************)
(* A model of the Dubbo invoker plugin: the client facade                  *)
(* (utils/dubbo_utils.py), the Dubbo client (dubbo/client.py) and the      *)
(* Hessian-2 request encoder (dubbo/codec/encoder.py).                     *)
(*                                                                         *)
(* Representation of Python data                                           *)
(*   str    a sequence of characters, each character a one-character       *)
(*          string; a character outside ASCII is written "U+XXXX"          *)
(*   value  a record tagged by its native shape:                           *)
(*            [t |-> "null"]            None                               *)
(*            [t |-> "bool",  v |-> b]  bool                               *)
(*            [t |-> "int",   w |-> k, v |-> n]  the int k * 2^32 + n with *)
(*                                      n in -2^31 .. 2^31-1 (TLC's        *)
(*                                      integers are 32 bits wide)         *)
(*            [t |-> "float", v |-> n]  the float n.0                      *)
(*            [t |-> "str",   v |-> s]  str                                *)
(*            [t |-> "list",  v |-> <<values>>]  list                      *)
(*            [t |-> "dict",  v |-> <<entries>>] dict, in insertion order, *)
(*                                      each entry [k |-> str, v |-> value]*)
(*            [t |-> "obj", path |-> str, v |-> <<entries>>]               *)
(*                                      dubbo.codec.encoder.Object         *)
(***************************************************************************)
EXTENDS Integers, Sequences, FiniteSets, TLC

(***************************************************************************)
(* Characters and text                                                     *)
(***************************************************************************)
Lower == <<"a","b","c","d","e","f","g","h","i","j","k","l","m",
           "n","o","p","q","r","s","t","u","v","w","x","y","z">>

Upper == <<"A","B","C","D","E","F","G","H","I","J","K","L","M",
           "N","O","P","Q","R","S","T","U","V","W","X","Y","Z">>

Digits == <<"0","1","2","3","4","5","6","7","8","9">>

\* The other ASCII characters the model's texts use, with their code points.
Punct == { <<" ", 32>>, <<",", 44>>, <<".", 46>>, <<"/", 47>>, <<":", 58>>,
           <<";", 59>>, <<"<", 60>>, <<">", 62>>, <<"[", 91>>, <<"]", 93>>,
           <<"_", 95>> }

\* Characters outside ASCII: U+00E9 takes two UTF-8 bytes, U+5F20 and U+4E09
\* ("zhang", "san") three.
Wide == { <<"U+00E9", 233>>, <<"U+5F20", 24352>>, <<"U+4E09", 19977>> }

Alphabet ==
    {Lower[i] : i \in 1..26} \cup {Upper[i] : i \in 1..26}
        \cup {Digits[i] : i \in 1..10}
        \cup {p[1] : p \in Punct} \cup {p[1] : p \in Wide}

\* ord(c)
Ord ==
    [c \in Alphabet |->
        IF \E i \in 1..26 : Lower[i] = c
        THEN 96 + (CHOOSE i \in 1..26 : Lower[i] = c)
        ELSE IF \E i \in 1..26 : Upper[i] = c
        THEN 64 + (CHOOSE i \in 1..26 : Upper[i] = c)
        ELSE IF \E i \in 1..10 : Digits[i] = c
        THEN 47 + (CHOOSE i \in 1..10 : Digits[i] = c)
        ELSE (CHOOSE p \in Punct \cup Wide : p[1] = c)[2]]

\* str.lower() of one character
LowerChar ==
    [c \in Alphabet |->
        IF \E i \in 1..26 : Upper[i] = c
        THEN Lower[CHOOSE i \in 1..26 : Upper[i] = c]
        ELSE c]

ToLower(s) == [i \in 1..Len(s) |-> LowerChar[s[i]]]

StartsWith(s, p) == Len(p) <= Len(s) /\ SubSeq(s, 1, Len(p)) = p

EndsWith(s, p) == Len(p) <= Len(s) /\ SubSeq(s, Len(s) - Len(p) + 1, Len(s)) = p

\* The least i with sub at position i of s, 0 when sub does not occur
\* (str.find, counted from 1).
Find(s, sub) ==
    LET hits == {i \in 1..(Len(s) - Len(sub) + 1) : SubSeq(s, i, i + Len(sub) - 1) = sub}
    IN  IF hits = {} THEN 0 ELSE CHOOSE i \in hits : \A j \in hits : i <= j

\* The greatest such i (str.rfind, counted from 1).
RFind(s, sub) ==
    LET hits == {i \in 1..(Len(s) - Len(sub) + 1) : SubSeq(s, i, i + Len(sub) - 1) = sub}
    IN  IF hits = {} THEN 0 ELSE CHOOSE i \in hits : \A j \in hits : i >= j

\* sub in s
Contains(s, sub) == Find(s, sub) # 0

\* s.split(sub)[0]
SplitFirst(s, sub) ==
    IF Find(s, sub) = 0 THEN s ELSE SubSeq(s, 1, Find(s, sub) - 1)

\* s.strip(), the only whitespace of the alphabet being the space
Strip(s) ==
    LET keep == {i \in 1..Len(s) : s[i] # " "}
    IN  IF keep = {} THEN <<>>
        ELSE SubSeq(s, CHOOSE i \in keep : \A j \in keep : i <= j,
                       CHOOSE i \in keep : \A j \in keep : i >= j)

\* s.replace(a, b) for single characters a and b
Replace(s, a, b) == [i \in 1..Len(s) |-> IF s[i] = a THEN b ELSE s[i]]


(***************************************************************************)
(* The words the program's texts are made of, and the texts                *)
(***************************************************************************)
W_java == <<"j","a","v","a">>

W_util == <<"u","t","i","l">>

W_lang == <<"l","a","n","g">>

W_com == <<"c","o","m">>

W_x == <<"x">>

W_io == <<"i","o">>

W_List == <<"L","i","s","t">>

W_ArrayList == <<"A","r","r","a","y","L","i","s","t">>

W_LinkedList == <<"L","i","n","k","e","d","L","i","s","t">>

W_Vector == <<"V","e","c","t","o","r">>

W_Stack == <<"S","t","a","c","k">>

W_Map == <<"M","a","p">>

W_HashMap == <<"H","a","s","h","M","a","p">>

W_LinkedHashMap == <<"L","i","n","k","e","d","H","a","s","h","M","a","p">>

W_TreeMap == <<"T","r","e","e","M","a","p">>

W_ConcurrentHashMap == <<"C","o","n","c","u","r","r","e","n","t","H","a","s","h","M","a","p">>

W_Set == <<"S","e","t">>

W_HashSet == <<"H","a","s","h","S","e","t">>

W_LinkedHashSet == <<"L","i","n","k","e","d","H","a","s","h","S","e","t">>

W_String == <<"S","t","r","i","n","g">>

W_Integer == <<"I","n","t","e","g","e","r">>

W_Long == <<"L","o","n","g">>

W_Float == <<"F","l","o","a","t">>

W_Double == <<"D","o","u","b","l","e">>

W_Boolean == <<"B","o","o","l","e","a","n">>

W_Byte == <<"B","y","t","e">>

W_Short == <<"S","h","o","r","t">>

W_Character == <<"C","h","a","r","a","c","t","e","r">>

W_Object == <<"O","b","j","e","c","t">>

W_int == <<"i","n","t">>

W_long == <<"l","o","n","g">>

W_float == <<"f","l","o","a","t">>

W_double == <<"d","o","u","b","l","e">>

W_boolean == <<"b","o","o","l","e","a","n">>

W_byte == <<"b","y","t","e">>

W_short == <<"s","h","o","r","t">>

W_char == <<"c","h","a","r">>

W_void == <<"v","o","i","d">>

W_elementData == <<"e","l","e","m","e","n","t","D","a","t","a">>

W_size == <<"s","i","z","e">>

W_path == <<"p","a","t","h">>

W_interface == <<"i","n","t","e","r","f","a","c","e">>

W_version == <<"v","e","r","s","i","o","n">>

W_string == <<"s","t","r","i","n","g">>

W_object == <<"o","b","j","e","c","t">>

W_dubbo == <<"d","u","b","b","o">>

W_nacos == <<"n","a","c","o","s">>

W_zookeeper == <<"z","o","o","k","e","e","p","e","r">>

W_Foo == <<"F","o","o">>

W_Bar == <<"B","a","r">>

W_name == <<"n","a","m","e">>

W_age == <<"a","g","e">>

W_child == <<"c","h","i","l","d">>

W_sayHello == <<"s","a","y","H","e","l","l","o">>

RECURSIVE Join(_, _)
\* sep.join(parts)
Join(parts, sep) ==
    IF Len(parts) = 0 THEN <<>>
    ELSE IF Len(parts) = 1 THEN parts[1]
    ELSE parts[1] \o sep \o Join(Tail(parts), sep)

Dotted(parts) == Join(parts, <<".">>)

JavaLang(name) == Dotted(<<W_java, W_lang, name>>)

JavaUtil(name) == Dotted(<<W_java, W_util, name>>)

\* T<E>
Generic(type, params) == type \o <<"<">> \o params \o <<">">>

InSeq(x, seq) == \E i \in 1..Len(seq) : seq[i] = x

\* The position of x counted from 1.
IndexFromOne(seq, x) ==
    CHOOSE i \in 1..Len(seq) : seq[i] = x /\ \A j \in 1..(i - 1) : seq[j] # x

\* list.index(x), counted from 0
IndexOf(seq, x) ==
    (CHOOSE i \in 1..Len(seq) : seq[i] = x /\ \A j \in 1..(i - 1) : seq[j] # x) - 1

(***************************************************************************)
(* Python values                                                           *)
(***************************************************************************)
PyNone == [t |-> "null"]

PyBool(b) == [t |-> "bool", v |-> b]

\* The int n, for n in -2^31 .. 2^31-1.
PyInt(n) == [t |-> "int", w |-> 0, v |-> n]

\* The int k * 2^32 + n, for n in -2^31 .. 2^31-1.
PyBig(k, n) == [t |-> "int", w |-> k, v |-> n]

PyFloat(n) == [t |-> "float", v |-> n]

PyStr(s) == [t |-> "str", v |-> s]

PyList(xs) == [t |-> "list", v |-> xs]

PyDict(entries) == [t |-> "dict", v |-> entries]

\* dubbo.codec.encoder.Object: a path and the values set on it, in insertion
\* order.
Object(path, entries) == [t |-> "obj", path |-> path, v |-> entries]

\* Object.keys(): the field names in insertion order.
Keys(obj) == [i \in 1..Len(obj.v) |-> obj.v[i].k]

\* Object.__contains__
HasKey(obj, key) == \E i \in 1..Len(obj.v) : obj.v[i].k = key

\* Object.__getitem__
GetItem(obj, key) == obj.v[CHOOSE i \in 1..Len(obj.v) : obj.v[i].k = key].v

\* The bounds of a signed 32-bit integer (dubbo.common.constants).
MAX_INT_32 == 2147483647

MIN_INT_32 == -2147483647 - 1

\* value > n and value < n for a Python int value and a 32-bit n.
IntGt(value, n) == value.w > 0 \/ (value.w = 0 /\ value.v > n)

IntLt(value, n) == value.w < 0 \/ (value.w = 0 /\ value.v < n)

\* x >> n on Python's unbounded integers (floor division by 2^n).
Shr(x, n) == x \div (2 ^ n)

\* The four bytes of struct.pack('!i', n).
Pack32(n) == <<Shr(n, 24) % 256, Shr(n, 16) % 256, Shr(n, 8) % 256, n % 256>>

\* The eight bytes of struct.pack('!q', value): the high word of k * 2^32 + n
\* in two's complement is k when n >= 0 and k - 1 when n < 0.
Pack64(value) ==
    Pack32(IF value.v < 0 THEN value.w - 1 ELSE value.w) \o Pack32(value.v)

(***************************************************************************)
(* The Hessian-2 encoder: Request._encode_*                                *)
(* The operators return the list the code builds, before the final         *)
(* `& 0xff` of _encode_request_body.                                       *)
(***************************************************************************)
EncodeBool(value) == IF value THEN <<84>> ELSE <<70>>

\* EncodeInt with the one-byte form reaching one value further, up to 0x30.
EncodeIntOneByteWider(value) ==
    IF IntGt(value, MAX_INT_32) \/ IntLt(value, MIN_INT_32)
    THEN <<76>> \o Pack64(value)
    ELSE LET n == value.v
         IN  IF -16 <= n /\ n <= 48 THEN <<n + 144>>
             ELSE IF -2048 <= n /\ n <= 2047 THEN <<200 + Shr(n, 8), n>>
             ELSE IF -262144 <= n /\ n <= 262143
                  THEN <<212 + Shr(n, 16), Shr(n, 8), n>>
             ELSE <<73, Shr(n, 24), Shr(n, 16), Shr(n, 8), n>>

EncodeInt(value) ==
    IF IntGt(value, MAX_INT_32) \/ IntLt(value, MIN_INT_32)
    THEN <<76>> \o Pack64(value)
    ELSE LET n == value.v
         IN  IF -16 <= n /\ n <= 47 THEN <<n + 144>>
             ELSE IF -2048 <= n /\ n <= 2047 THEN <<200 + Shr(n, 8), n>>
             ELSE IF -262144 <= n /\ n <= 262143
                  THEN <<212 + Shr(n, 16), Shr(n, 8), n>>
             ELSE <<73, Shr(n, 24), Shr(n, 16), Shr(n, 8), n>>

\* _encode_float on the floats of the model, the integral floats n.0 with
\* -0x8000 <= n < 0x8000; the millisecond and the IEEE forms are not
\* modelled.
EncodeFloat(n) ==
    CASE n = 0 -> <<91>>
      [] n = 1 -> <<92>>
      [] n \notin {0, 1} /\ -128 <= n /\ n < 128 -> <<93, n>>
      [] (n < -128 \/ n >= 128) /\ -32768 <= n /\ n < 32768 -> <<94, Shr(n, 8), n>>

\* The bytes _encode_utf appends for one character of code point ch.
Utf8Char(ch) ==
    IF ch < 128 THEN <<ch % 256>>
    ELSE IF ch < 2048
         THEN <<(192 + (Shr(ch, 6) % 32)) % 256, (128 + (ch % 64)) % 256>>
    ELSE <<(224 + (Shr(ch, 12) % 16)) % 256,
           (128 + (Shr(ch, 6) % 64)) % 256,
           (128 + (ch % 64)) % 256>>

RECURSIVE EncodeUtf(_)
EncodeUtf(value) ==
    IF value = <<>> THEN <<>>
    ELSE Utf8Char(Ord[Head(value)]) \o EncodeUtf(Tail(value))

\* EncodeStr with the length of the encoded bytes in the prefix.
EncodeStrByteLength(value) ==
    LET length == Len(EncodeUtf(value))
    IN  (IF length <= 31 THEN <<length>>
         ELSE IF length <= 1023 THEN <<48 + Shr(length, 8), length>>
         ELSE <<83, Shr(length, 8), length>>)
        \o EncodeUtf(value)

\* The bytes _encode_str appends ahead of the characters of a text of
\* `length` characters, before the mask of _encode_request_body.
StrPrefix(length) ==
    IF length <= 31 THEN <<length>>
    ELSE IF length <= 1023 THEN <<48 + Shr(length, 8), length>>
    ELSE <<83, Shr(length, 8), length>>

EncodeStr(value) == StrPrefix(Len(value)) \o EncodeUtf(value)

(***************************************************************************)
(* The encoder's session state threads through the encoding: an encoding   *)
(* step takes the tables (classes, types) and returns the bytes it appends *)
(* with the tables as it leaves them, or the exception it raises.          *)
(***************************************************************************)
Done(st, out) ==
    [err |-> "", out |-> out, classes |-> st.classes, types |-> st.types]

Raise(st, msg) ==
    [err |-> msg, out |-> <<>>, classes |-> st.classes, types |-> st.types]

\* result.extend(...): the bytes of step r follow those of acc, the tables
\* are those r leaves.
Extend(acc, r) == [r EXCEPT !.out = acc.out \o r.out]

\* The list type tag of _encode_list, "" when the first element has none.
ListTypeTag(first) ==
    CASE first.t = "bool" -> <<"[">> \o W_boolean
      [] first.t = "int" -> <<"[">> \o W_int
      [] first.t = "float" -> <<"[">> \o W_double
      [] first.t = "str" -> <<"[">> \o W_string
      [] first.t = "obj" -> <<"[">> \o W_object
      [] OTHER -> <<>>

RECURSIVE EncodeSingleValue(_, _)
RECURSIVE EncodeObject(_, _)
RECURSIVE EncodeList(_, _)
RECURSIVE EncodeFields(_, _, _)
RECURSIVE EncodeItems(_, _, _)

EncodeSingleValue(st, value) ==
    CASE value.t = "bool" -> Done(st, EncodeBool(value.v))
      [] value.t = "int" -> Done(st, EncodeInt(value))
      [] value.t = "float" -> Done(st, EncodeFloat(value.v))
      [] value.t = "str" -> Done(st, EncodeStr(value.v))
      [] value.t = "obj" -> EncodeObject(st, value)
      [] value.t = "list" -> EncodeList(st, value)
      [] value.t = "null" -> Done(st, <<78>>)
      [] OTHER -> Raise(st, "HessianTypeError: Unknown args type")

\* The class definition _encode_object emits for a path not yet in the table.
ClassDefinition(path, field_names) ==
    <<67>> \o EncodeStr(path) \o EncodeInt(PyInt(Len(field_names)))
        \o Join([i \in 1..Len(field_names) |-> EncodeStr(field_names[i])], <<>>)

\* The reference to the class of index class_id.
ClassReference(class_id) ==
    IF class_id <= 15 THEN <<(class_id + 96) % 256>>
    ELSE <<79>> \o EncodeInt(PyInt(class_id))

\* ClassKnown without the lookup of the table.
ClassKnownNever(path, classes) == FALSE

\* Whether _encode_object finds the path in the table.
ClassKnown(path, classes) == InSeq(path, classes)

EncodeObject(st, value) ==
    LET path == value.path
        field_names == Keys(value)
    IN  IF path = JavaUtil(W_ArrayList) /\ HasKey(value, W_elementData)
        THEN EncodeList(st, GetItem(value, W_elementData))
        ELSE LET known == ClassKnown(path, st.classes)
                 classes == IF known THEN st.classes ELSE Append(st.classes, path)
                 head == (IF known THEN <<>> ELSE ClassDefinition(path, field_names))
                             \o ClassReference(IndexOf(classes, path))
             IN  EncodeFields(Done([st EXCEPT !.classes = classes], head), value.v, 1)

\* The loop over the fields: acc is the encoding so far.
EncodeFields(acc, entries, i) ==
    IF i > Len(entries) \/ acc.err # "" THEN acc
    ELSE EncodeFields(Extend(acc, EncodeSingleValue(acc, entries[i].v)),
                      entries, i + 1)

\* _encode_list(value): len(value) and value[i] are those of a list or of a
\* str (its characters); any other value has no len() here.
EncodeList(st, value) ==
    IF value.t \notin {"list", "str"}
    THEN Raise(st, "TypeError: object has no len()")
    ELSE LET items == IF value.t = "list" THEN value.v
                      ELSE [i \in 1..Len(value.v) |-> PyStr(<<value.v[i]>>)]
             length == Len(items)
         IN  IF length = 0 THEN EncodeSingleValue(st, PyNone)
             ELSE LET type == ListTypeTag(items[1])
                      known == InSeq(type, st.types)
                      types == IF known THEN st.types ELSE Append(st.types, type)
                      tag == IF known THEN EncodeInt(PyInt(IndexOf(types, type)))
                             ELSE EncodeStr(type)
                      head == IF length < 7 THEN <<112 + length>> \o tag
                              ELSE <<86>> \o tag \o EncodeInt(PyInt(length))
                  IN  IF type = <<>>
                      THEN Raise(st, "HessianTypeError: Unknown list type")
                      ELSE EncodeItems(Done([st EXCEPT !.types = types], head),
                                       items, 1)

\* The loop over the elements, with its check of each element's type against
\* the first one's.
EncodeItems(acc, items, i) ==
    IF i > Len(items) \/ acc.err # "" THEN acc
    ELSE IF items[1].t # items[i].t
    THEN Raise(acc, "HessianTypeError: All elements in list must be the same type")
    ELSE EncodeItems(Extend(acc, EncodeSingleValue(acc, items[i])), items, i + 1)

(***************************************************************************)
(* The parameter-type descriptor                                           *)
(***************************************************************************)
\* An optional list of declared types: None, or a list.
NoTypes == [some |-> FALSE, v |-> <<>>]

Types(ts) == [some |-> TRUE, v |-> ts]

\* `if param_types:` is false of None and of the empty list.
Truthy(param_types) == param_types.some /\ Len(param_types.v) > 0

\* The table primitive_types of _java_type_to_jvm_signature.
primitive_types ==
    { <<W_boolean, "Z">>, <<W_byte, "B">>, <<W_char, "C">>, <<W_short, "S">>,
      <<W_int, "I">>, <<W_long, "J">>, <<W_float, "F">>, <<W_double, "D">>,
      <<W_void, "V">> }

RECURSIVE JavaTypeKeepGenerics(_)
\* JavaTypeToJvmSignature without the removal of the generic parameters.
JavaTypeKeepGenerics(java_type) ==
    IF StartsWith(java_type, <<"[">>)
           \/ (StartsWith(java_type, <<"L">>) /\ EndsWith(java_type, <<";">>))
    THEN java_type
    ELSE IF \E p \in primitive_types : p[1] = java_type
    THEN <<(CHOOSE p \in primitive_types : p[1] = java_type)[2]>>
    ELSE IF EndsWith(java_type, <<"[", "]">>)
    THEN <<"[">> \o JavaTypeKeepGenerics(SubSeq(java_type, 1, Len(java_type) - 2))
    ELSE <<"L">> \o Replace(java_type, ".", "/") \o <<";">>

RECURSIVE JavaTypeToJvmSignature(_)
JavaTypeToJvmSignature(java_type) ==
    IF StartsWith(java_type, <<"[">>)
           \/ (StartsWith(java_type, <<"L">>) /\ EndsWith(java_type, <<";">>))
    THEN java_type
    ELSE IF \E p \in primitive_types : p[1] = java_type
    THEN <<(CHOOSE p \in primitive_types : p[1] = java_type)[2]>>
    ELSE IF EndsWith(java_type, <<"[", "]">>)
    THEN <<"[">> \o JavaTypeToJvmSignature(SubSeq(java_type, 1, Len(java_type) - 2))
    ELSE <<"L">>
             \o Replace(IF Contains(java_type, <<"<">>)
                        THEN SplitFirst(java_type, <<"<">>)
                        ELSE java_type,
                        ".", "/")
             \o <<";">>

ConvertJavaTypesToJvmSignature(param_types) ==
    Join([i \in 1..Len(param_types) |-> JavaTypeToJvmSignature(param_types[i])],
         <<>>)

RECURSIVE GetClassNameIntFirst(_)
\* GetClassName with the test for an integer ahead of the test for a
\* boolean: a bool is an int to isinstance.
GetClassNameIntFirst(class) ==
    CASE class.t = "bool" -> [err |-> "", s |-> <<"I">>]
      [] class.t = "int" ->
            IF ~IntLt(class, MIN_INT_32) /\ ~IntGt(class, MAX_INT_32)
            THEN [err |-> "", s |-> <<"I">>]
            ELSE [err |-> "", s |-> <<"J">>]
      [] class.t = "float" -> [err |-> "", s |-> <<"D">>]
      [] class.t = "str" ->
            [err |-> "",
             s |-> <<"L">> \o Join(<<W_java, W_lang, W_String>>, <<"/">>) \o <<";">>]
      [] class.t = "obj" ->
            [err |-> "", s |-> <<"L">> \o Replace(class.path, ".", "/") \o <<";">>]
      [] class.t = "list" ->
            IF Len(class.v) = 0
            THEN [err |-> "HessianTypeError: Method parameter is a list but length is zero",
                  s |-> <<>>]
            ELSE LET first == GetClassNameIntFirst(class.v[1])
                 IN  [first EXCEPT !.s = IF first.err = "" THEN <<"[">> \o @ ELSE @]
      [] OTHER -> [err |-> "HessianTypeError: Unknown argument type", s |-> <<>>]

\* _get_class_name returns a text or raises: [err, s].
RECURSIVE GetClassName(_)
GetClassName(class) ==
    CASE class.t = "bool" -> [err |-> "", s |-> <<"Z">>]
      [] class.t = "int" ->
            IF ~IntLt(class, MIN_INT_32) /\ ~IntGt(class, MAX_INT_32)
            THEN [err |-> "", s |-> <<"I">>]
            ELSE [err |-> "", s |-> <<"J">>]
      [] class.t = "float" -> [err |-> "", s |-> <<"D">>]
      [] class.t = "str" ->
            [err |-> "",
             s |-> <<"L">> \o Join(<<W_java, W_lang, W_String>>, <<"/">>) \o <<";">>]
      [] class.t = "obj" ->
            [err |-> "", s |-> <<"L">> \o Replace(class.path, ".", "/") \o <<";">>]
      [] class.t = "list" ->
            IF Len(class.v) = 0
            THEN [err |-> "HessianTypeError: Method parameter is a list but length is zero",
                  s |-> <<>>]
            ELSE LET first == GetClassName(class.v[1])
                 IN  [first EXCEPT !.s = IF first.err = "" THEN <<"[">> \o @ ELSE @]
      [] OTHER -> [err |-> "HessianTypeError: Unknown argument type", s |-> <<>>]

RECURSIVE GetParameterTypes(_)
GetParameterTypes(arguments) ==
    IF Len(arguments) = 0 THEN [err |-> "", s |-> <<>>]
    ELSE LET first == GetClassName(arguments[1])
             rest == GetParameterTypes(Tail(arguments))
         IN  IF first.err # "" THEN first
             ELSE IF rest.err # "" THEN rest
             ELSE [err |-> "", s |-> first.s \o rest.s]

(***************************************************************************)
(* The request framer: Request                                             *)
(***************************************************************************)
\* The first four bytes of a request frame: the magic 0xdabb, the flags of a
\* two-way Hessian-2 request, the status (dubbo.common.constants).
DEFAULT_REQUEST_META == <<218, 187, 194, 0>>

\* An optional context: None, or its entries [k |-> str, v |-> str].
NoContext == [some |-> FALSE, v |-> <<>>]

\* dict.update: the value of a key already present is replaced in place, a
\* new key is appended.
RECURSIVE DictUpdate(_, _)
DictUpdate(entries, more) ==
    IF Len(more) = 0 THEN entries
    ELSE LET e == more[1]
             merged ==
                 IF \E i \in 1..Len(entries) : entries[i].k = e.k
                 THEN [i \in 1..Len(entries) |->
                          IF entries[i].k = e.k THEN e ELSE entries[i]]
                 ELSE Append(entries, e)
         IN  DictUpdate(merged, Tail(more))

\* The attachments of _encode_request_body, in iteration order.
Attachments(body) ==
    LET attachments == << [k |-> W_path, v |-> body.path],
                          [k |-> W_interface, v |-> body.path],
                          [k |-> W_version, v |-> body.version] >>
    IN  IF body.context.some THEN DictUpdate(attachments, body.context.v)
        ELSE attachments

\* The loop `for arg in arguments`.
RECURSIVE EncodeArguments(_, _, _)
EncodeArguments(acc, arguments, i) ==
    IF i > Len(arguments) \/ acc.err # "" THEN acc
    ELSE EncodeArguments(Extend(acc, EncodeSingleValue(acc, arguments[i])),
                         arguments, i + 1)

\* The text of the descriptor the body carries: [err, s].
ParameterTypesString(body) ==
    IF Truthy(body.parameter_types)
    THEN [err |-> "", s |-> ConvertJavaTypesToJvmSignature(body.parameter_types.v)]
    ELSE GetParameterTypes(body.arguments)

\* The final loop `body[i] = body[i] & 0xff`.
MaskBytes(body) == [i \in 1..Len(body) |-> body[i] % 256]

\* The attachments map: 'H', each key and value, 'Z'.
EncodeAttachments(attachments) ==
    <<72>>
        \o Join([i \in 1..Len(attachments) |->
                    EncodeStr(attachments[i].k) \o EncodeStr(attachments[i].v)],
                <<>>)
        \o <<90>>

\* AssembleBody with the method name ahead of the service version.
AssembleBodyMethodFirst(body, st, types, args) ==
    IF types.err # "" THEN Raise(st, types.err)
    ELSE IF args.err # "" THEN args
    ELSE [args EXCEPT
             !.out = MaskBytes(EncodeStr(body.dubbo_version) \o EncodeStr(body.path)
                                   \o EncodeStr(body.method) \o EncodeStr(body.version)
                                   \o EncodeStr(types.s) \o @
                                   \o EncodeAttachments(Attachments(body)))]

\* The body assembled from its parts: types is the descriptor or the
\* exception of _get_parameter_types, args the encoding of the arguments.
AssembleBody(body, st, types, args) ==
    IF types.err # "" THEN Raise(st, types.err)
    ELSE IF args.err # "" THEN args
    ELSE [args EXCEPT
             !.out = MaskBytes(EncodeStr(body.dubbo_version) \o EncodeStr(body.path)
                                   \o EncodeStr(body.version) \o EncodeStr(body.method)
                                   \o EncodeStr(types.s) \o @
                                   \o EncodeAttachments(Attachments(body)))]

\* Request._encode_request_body on the request's tables: the body and the
\* tables after it, or the exception.
EncodeRequestBody(request) ==
    AssembleBody(request.body,
                 [classes |-> request.classes, types |-> request.types],
                 ParameterTypesString(request.body),
                 EncodeArguments(Done([classes |-> request.classes,
                                       types |-> request.types], <<>>),
                                 request.body.arguments, 1))

\* get_request_body_length
GetRequestBodyLength(body) == Pack32(Len(body))

\* AssembleFrame with eight zero bytes at the place of the invoke id.
AssembleFrameZeroId(request_body, invoke_id) ==
    IF request_body.err # "" THEN request_body
    ELSE [request_body EXCEPT
             !.out = DEFAULT_REQUEST_META \o Pack64(PyInt(0))
                         \o GetRequestBodyLength(@) \o @]

\* The frame around an encoded body: the meta bytes, the invoke id, the
\* length of the body, the body.
AssembleFrame(request_body, invoke_id) ==
    IF request_body.err # "" THEN request_body
    ELSE [request_body EXCEPT
             !.out = DEFAULT_REQUEST_META \o Pack64(PyInt(invoke_id))
                         \o GetRequestBodyLength(@) \o @]

\* Request.encode: the frame and the tables after it, or the exception.
Encode(request) == AssembleFrame(EncodeRequestBody(request), request.invoke_id)

(***************************************************************************)
(* The protocol handler's coercion of arguments: DubboProtocolHandler      *)
(***************************************************************************)
BASIC_TYPES ==
    {JavaLang(W_String), JavaLang(W_Integer), JavaLang(W_Long), JavaLang(W_Float),
     JavaLang(W_Double), JavaLang(W_Boolean), JavaLang(W_Byte), JavaLang(W_Short),
     JavaLang(W_Character),
     W_int, W_long, W_float, W_double, W_boolean, W_byte, W_short, W_char}

COLLECTION_TYPES ==
    {JavaUtil(W_List), JavaUtil(W_ArrayList), JavaUtil(W_LinkedList),
     JavaUtil(W_Map), JavaUtil(W_HashMap), JavaUtil(W_LinkedHashMap),
     JavaUtil(W_Set), JavaUtil(W_HashSet), JavaUtil(W_LinkedHashSet)}

MAP_TYPES ==
    {JavaUtil(W_Map), JavaUtil(W_HashMap), JavaUtil(W_LinkedHashMap),
     JavaUtil(W_TreeMap), JavaUtil(W_ConcurrentHashMap)}

LIST_TYPES ==
    {JavaUtil(W_List), JavaUtil(W_ArrayList), JavaUtil(W_LinkedList),
     JavaUtil(W_Vector), JavaUtil(W_Stack)}

ExtractCleanType(param_type) == Strip(SplitFirst(param_type, <<"<">>))

IsObjectType(param_type) ==
    LET clean_type == ExtractCleanType(param_type)
    IN  /\ clean_type \notin BASIC_TYPES
        /\ clean_type \notin COLLECTION_TYPES
        /\ ~StartsWith(clean_type, <<"[">>)

IsMapType(param_type) == ExtractCleanType(param_type) \in MAP_TYPES

IsListType(param_type) == ExtractCleanType(param_type) \in LIST_TYPES

RECURSIVE ConvertDictToObject(_, _)
RECURSIVE ConvertNestedValue(_)

ConvertDictToObject(value, param_type) ==
    Object(ExtractCleanType(param_type),
           [i \in 1..Len(value.v) |->
               [k |-> value.v[i].k, v |-> ConvertNestedValue(value.v[i].v)]])

ConvertNestedValue(value) ==
    IF value.t = "dict" THEN ConvertDictToObject(value, JavaLang(W_Object))
    ELSE IF value.t = "list"
    THEN PyList([i \in 1..Len(value.v) |-> ConvertNestedValue(value.v[i])])
    ELSE value

\* The class the collection object is created with.
CollectionClass(param_type) ==
    IF ExtractCleanType(param_type) = JavaUtil(W_List) THEN JavaUtil(W_ArrayList)
    ELSE ExtractCleanType(param_type)

\* The generic element type of the declared type, <<>> when it has none
\* (the code's None and its empty text are both false in `and element_type`).
ElementType(param_type) ==
    IF Contains(param_type, <<"<">>) /\ Contains(param_type, <<">">>)
    THEN LET start == Find(param_type, <<"<">>) + 1
             end == RFind(param_type, <<">">>) - 1
         IN  IF start > end THEN <<>> ELSE Strip(SubSeq(param_type, start, end))
    ELSE <<>>

\* The conversion of one element of the list.
ConvertElement(item, element_type) ==
    IF item.t = "dict" /\ element_type # <<>>
    THEN ConvertDictToObject(item, element_type)
    ELSE item

ConvertListToJavaCollection(value, param_type) ==
    LET element_type == ElementType(param_type)
        converted_elements ==
            [i \in 1..Len(value.v) |-> ConvertElement(value.v[i], element_type)]
    IN  Object(CollectionClass(param_type),
               << [k |-> W_elementData, v |-> PyList(converted_elements)],
                  [k |-> W_size, v |-> PyInt(Len(converted_elements))] >>)

ConvertSingleParam(param, param_type) ==
    IF param.t = "dict" /\ (IsObjectType(param_type) \/ IsMapType(param_type))
    THEN ConvertDictToObject(param, param_type)
    ELSE IF param.t = "list" /\ IsListType(param_type)
    THEN ConvertListToJavaCollection(param, param_type)
    ELSE param

(***************************************************************************)
(* The Dubbo client: DubboClient                                           *)
(***************************************************************************)
\* The default of the parameter args of DubboClient.call: the empty tuple.
NoArgs == PyList(<<>>)

\* DubboClient.call up to the dict request_param it hands to the connection
\* pool: an args that is no list is the one argument of the call.  The
\* request's context is the connection's to give; this client gives none.
ClientCall(client, method, args, param_types) ==
    [dubbo_version |-> client.dubbo_version,
     version |-> <<>>,
     path |-> client.interface,
     method |-> method,
     arguments |-> IF args.t = "list" THEN args.v ELSE <<args>>,
     parameter_types |-> IF Truthy(param_types) THEN param_types ELSE NoTypes,
     context |-> NoContext]

\* CallWithTypes without the two checks of a multi-parameter call: zip pairs
\* the parameters with the types as far as both go.
CallWithTypesUnchecked(client, method, params, param_types) ==
    IF ~param_types.some
    THEN [err |-> "",
          request_param |->
              ClientCall(client, method,
                         IF params.t = "null" THEN NoArgs ELSE params, NoTypes)]
    ELSE IF Len(param_types.v) = 0
    THEN [err |-> "",
          request_param |-> ClientCall(client, method, PyList(<<>>), param_types)]
    ELSE IF Len(param_types.v) = 1
    THEN [err |-> "",
          request_param |->
              ClientCall(client, method,
                         ConvertSingleParam(params, param_types.v[1]), param_types)]
    ELSE IF params.t # "list"
    THEN [err |-> "",
          request_param |-> ClientCall(client, method, PyList(<<>>), param_types)]
    ELSE [err |-> "",
          request_param |->
              ClientCall(client, method,
                         PyList([i \in 1..(IF Len(params.v) < Len(param_types.v)
                                           THEN Len(params.v)
                                           ELSE Len(param_types.v)) |->
                                    ConvertSingleParam(params.v[i], param_types.v[i])]),
                         param_types)]

\* _call_with_types up to the call of the client: the dict request_param, or
\* the ValueError it raises: [err, request_param].
CallWithTypes(client, method, params, param_types) ==
    IF ~param_types.some
    THEN [err |-> "",
          request_param |->
              ClientCall(client, method,
                         IF params.t = "null" THEN NoArgs ELSE params, NoTypes)]
    ELSE IF Len(param_types.v) = 0
    THEN [err |-> "",
          request_param |-> ClientCall(client, method, PyList(<<>>), param_types)]
    ELSE IF Len(param_types.v) = 1
    THEN [err |-> "",
          request_param |->
              ClientCall(client, method,
                         ConvertSingleParam(params, param_types.v[1]), param_types)]
    ELSE IF params.t # "list"
    THEN [err |-> "ValueError: For multi-parameter invocation, params must be list or tuple type",
          request_param |-> <<>>]
    ELSE IF Len(params.v) # Len(param_types.v)
    THEN [err |-> "ValueError: Number of parameters does not match number of parameter types",
          request_param |-> <<>>]
    ELSE [err |-> "",
          request_param |->
              ClientCall(client, method,
                         PyList([i \in 1..Len(params.v) |->
                                    ConvertSingleParam(params.v[i], param_types.v[i])]),
                         param_types)]

(***************************************************************************)
(* The protocol handler's invoke and the client facade                     *)
(***************************************************************************)
\* A result record of the facade.
Failed(message) == [success |-> FALSE, result |-> "None", message |-> message]

Succeeded(reply) ==
    [success |-> TRUE, result |-> reply, message |-> "Invocation successful"]

\* URI_PATTERN = ^(?:dubbo:\/\/)?([^\/]+)(?:\/.*)?$ : the optional prefix is
\* taken when a character other than "/" follows it; the group is the text
\* up to the first "/", which must not be empty.  [matched, group].
UriPatternMatch(service_uri) ==
    LET prefix == W_dubbo \o <<":", "/", "/">>
        rest == IF StartsWith(service_uri, prefix)
                       /\ Len(service_uri) > Len(prefix)
                       /\ service_uri[Len(prefix) + 1] # "/"
                THEN SubSeq(service_uri, Len(prefix) + 1, Len(service_uri))
                ELSE service_uri
    IN  IF rest = <<>> \/ rest[1] = "/"
        THEN [matched |-> FALSE, group |-> <<>>]
        ELSE [matched |-> TRUE, group |-> SplitFirst(rest, <<"/">>)]

IsDigit(c) == \E i \in 1..10 : Digits[i] = c

RECURSIVE DigitsValue(_)
\* The number a text of decimal digits writes.
DigitsValue(text) ==
    IF text = <<>> THEN 0
    ELSE 10 * DigitsValue(SubSeq(text, 1, Len(text) - 1))
             + (Ord[text[Len(text)]] - 48)

\* int(text) on the texts of the model (an optional sign and digits, with
\* spaces around them): [err, n].
ParseInt(text) ==
    LET literal == Strip(text)
        signed == literal # <<>> /\ literal[1] \in {"+", "-"}
        digits == IF signed THEN Tail(literal) ELSE literal
    IN  IF digits # <<>> /\ \A i \in 1..Len(digits) : IsDigit(digits[i])
        THEN [err |-> "",
              n |-> IF signed /\ literal[1] = "-" THEN 0 - DigitsValue(digits)
                    ELSE DigitsValue(digits)]
        ELSE [err |-> "ValueError: invalid literal for int()", n |-> 0]

\* HostPortError with the range of ports beginning at 0.
HostPortErrorFromZero(host_port) ==
    IF ~Contains(host_port, <<":">>) THEN "ValueError: Missing port separator"
    ELSE LET port_str == SubSeq(host_port, RFind(host_port, <<":">>) + 1,
                                Len(host_port))
             port == ParseInt(port_str)
         IN  IF port.err # "" THEN port.err
             ELSE IF ~(0 <= port.n /\ port.n <= 65535)
             THEN "ValueError: Port out of valid range"
             ELSE ""

\* The validation of host:port in DubboProtocolHandler.invoke: "" or the
\* ValueError.
HostPortError(host_port) ==
    IF ~Contains(host_port, <<":">>) THEN "ValueError: Missing port separator"
    ELSE LET port_str == SubSeq(host_port, RFind(host_port, <<":">>) + 1,
                                Len(host_port))
             port == ParseInt(port_str)
         IN  IF port.err # "" THEN port.err
             ELSE IF ~(1 <= port.n /\ port.n <= 65535)
             THEN "ValueError: Port out of valid range"
             ELSE ""

\* DubboProtocolHandler.invoke up to the call of the client: the result record
\* it returns at once, or the dict request_param of the request to send:
\* [returned, result, request_param].
HandlerInvoke(service_uri, interface, method, params, param_types, dubbo_version) ==
    LET match == UriPatternMatch(service_uri)
        dubbo_client == [interface |-> interface, version |-> <<>>,
                         dubbo_version |-> dubbo_version, host |-> match.group]
        called ==
            IF ~param_types.some
            THEN [err |-> "",
                  request_param |->
                      ClientCall(dubbo_client, method,
                                 IF params.t = "null" THEN NoArgs ELSE params,
                                 NoTypes)]
            ELSE CallWithTypes(dubbo_client, method, params, param_types)
    IN  IF ~match.matched
        THEN [returned |-> TRUE, request_param |-> <<>>,
              result |-> Failed("Service URI format error")]
        ELSE IF HostPortError(match.group) # ""
        THEN [returned |-> TRUE, request_param |-> <<>>,
              result |-> Failed("Service address format error: "
                                    \o HostPortError(match.group))]
        ELSE IF called.err # ""
        THEN [returned |-> TRUE, request_param |-> <<>>,
              result |-> Failed("Invocation exception: " \o called.err)]
        ELSE [returned |-> FALSE, request_param |-> called.request_param,
              result |-> Failed("")]

\* The protocol of a service URI, as invoke_service and
\* ProtocolFactory.create_protocol_handler both compute it.
ProtocolOf(service_uri) ==
    IF ~Contains(service_uri, <<":", "/", "/">>) THEN W_dubbo
    ELSE ToLower(SplitFirst(service_uri, <<":", "/", "/">>))

\* ProtocolFactory.create_protocol_handler: "" or the ValueError.
CreateProtocolHandlerError(service_uri) ==
    IF ProtocolOf(service_uri) = W_dubbo THEN ""
    ELSE "ValueError: Unsupported protocol"

\* _parse_registry_address, the pattern ^([a-z]+)://(.+)$ : [err, type,
\* address].
ParseRegistryAddress(registry_address) ==
    LET sep == Find(registry_address, <<":", "/", "/">>)
        type == SubSeq(registry_address, 1, sep - 1)
        address == SubSeq(registry_address, sep + 3, Len(registry_address))
    IN  IF sep > 1 /\ address # <<>>
               /\ \A i \in 1..Len(type) : \E j \in 1..26 : Lower[j] = type[i]
        THEN [err |-> "", type |-> type, address |-> address]
        ELSE [err |-> "ValueError: Registry address format error",
              type |-> <<>>, address |-> <<>>]

\* RegistryFactory.create_registry: "" or the ValueError.
CreateRegistryError(registry_type) ==
    IF registry_type = W_zookeeper THEN "ValueError: Registry: unsupported type"
    ELSE IF registry_type = W_nacos THEN ""
    ELSE "ValueError: Registry: unsupported type"

(***************************************************************************)
(* The inputs of the model                                                 *)
(***************************************************************************)
\* The longest list among the parameter values.
MaxListLen == 2

\* The number of requests the process creates.
MaxInvoke == 2

Interface == Dotted(<<W_com, W_x, W_Foo>> )

Method == W_sayHello

DubboVersion == <<"2",".","4",".","1","0">>

ComXFoo == Dotted(<<W_com, W_x, W_Foo>>)

W_lisi == <<"l","i","s","i">>

ZhangSan == <<"U+5F20", "U+4E09">>

\* A text of n characters c.
Repeat(c, n) == [i \in 1..n |-> c]

\* {"name": "lisi", "age": 25}
DictFoo == PyDict(<< [k |-> W_name, v |-> PyStr(W_lisi)], [k |-> W_age, v |-> PyInt(25)] >>)

\* {"name": "lisi", "child": {"name": "lisi", "age": 25}}
DictNested == PyDict(<< [k |-> W_name, v |-> PyStr(W_lisi)], [k |-> W_child, v |-> DictFoo] >>)

\* The elements of the lists among the parameter values.
Elements == {PyInt(25), PyStr(W_lisi), PyBig(1, MIN_INT_32), DictFoo, DictNested}

RECURSIVE ListsUpTo(_)
\* The sequences of at most n elements.
ListsUpTo(n) ==
    IF n = 0 THEN {<<>>}
    ELSE LET shorter == ListsUpTo(n - 1)
         IN  shorter \cup {Append(xs, e) : xs \in {ys \in shorter : Len(ys) = n - 1},
                                           e \in Elements}

\* 2^31 is 1 * 2^32 - 2^31, and -2^31 - 1 is -1 * 2^32 + 2^31 - 1.
Scalars ==
    {PyNone, PyBool(TRUE), PyInt(25), PyInt(MAX_INT_32), PyInt(MIN_INT_32),
     PyBig(1, MIN_INT_32), PyBig(-1, MAX_INT_32), PyFloat(1),
     PyStr(<<>>), PyStr(W_lisi), PyStr(ZhangSan),
     PyStr(Repeat("U+00E9", 31)), PyStr(Repeat("U+5F20", 32))}

\* The parameter values of a call, as the JSON parser produces them.
ParamValues ==
    Scalars \cup {DictFoo, DictNested}
        \cup {PyList(xs) : xs \in ListsUpTo(MaxListLen)}
        \cup {PyList(<<PyList(<<PyInt(25)>>)>>)}

\* The declared types of one parameter.
DeclaredTypes ==
    {JavaLang(W_String), W_int, JavaLang(W_Integer),
     JavaUtil(W_List), Generic(JavaUtil(W_List), ComXFoo),
     Generic(JavaUtil(W_List), JavaLang(W_String)),
     JavaUtil(W_ArrayList), JavaUtil(W_LinkedList),
     Generic(JavaUtil(W_Vector), ComXFoo), JavaUtil(W_Stack),
     JavaUtil(W_Set),
     Generic(JavaUtil(W_Map), JavaLang(W_String) \o <<",">> \o JavaLang(W_Object)),
     ComXFoo, ComXFoo \o <<"[", "]">>, JavaLang(W_String) \o <<"[", "]">>,
     <<"[", "L">> \o JavaLang(W_String) \o <<";">>,
     <<"L">> \o Join(<<W_com, W_x, W_Foo>>, <<"/">>) \o <<";">>}

\* The lists of declared types of a call: none, the empty one, one type, and
\* some of two and three types.
TypeLists ==
    {NoTypes, Types(<<>>)}
        \cup {Types(<<t>>) : t \in DeclaredTypes}
        \cup {Types(<<JavaLang(W_String), JavaLang(W_Integer)>>),
              Types(<<ComXFoo, Generic(JavaUtil(W_List), ComXFoo)>>),
              Types(<<ComXFoo, JavaUtil(W_LinkedList)>>),
              Types(<<W_int, W_long, ComXFoo>>)}

Port20880 == <<"2","0","8","8","0">>

\* A service URI the handler accepts.
GoodUri == W_dubbo \o <<":", "/", "/", "h", ":">> \o Port20880

\* The other service URIs: accepted without scheme and with a path, and
\* refused for their protocol, their port or their form.
OtherUris ==
    {<<"h", ":">> \o Port20880,
     GoodUri \o <<"/">> \o Interface,
     <<"r", "e", "s", "t", ":", "/", "/", "h", ":">> \o Port20880,
     <<"h">>,
     W_dubbo \o <<":", "/", "/", "h", ":", "0">>,
     <<"h", ":", "6", "5", "5", "3", "6">>,
     <<"h", ":", "x">>,
     <<"/", "h", ":">> \o Port20880,
     <<"h", ":", "1">>,
     W_dubbo \o <<":", "/", "/", "h", ":", "6", "5", "5", "3", "5">>}

\* The calls of the facade: every parameter value under every list of types
\* on the good URI, and one call on each other URI.
ServiceCalls ==
    {[service_uri |-> GoodUri, params |-> p, param_types |-> t] :
        p \in ParamValues, t \in TypeLists}
    \cup {[service_uri |-> u, params |-> PyStr(W_lisi),
           param_types |-> Types(<<JavaLang(W_String)>>)] : u \in OtherUris}

\* The registry addresses: a Nacos one, a ZooKeeper one, one of an unknown
\* type, and two that are not of the form type://address.
RegistryAddresses ==
    {W_nacos \o <<":", "/", "/", "n", ":", "8", "8", "4", "8">>,
     W_zookeeper \o <<":", "/", "/", "z", ":", "2", "1", "8", "1">>,
     <<"e", "t", "c", "d", ":", "/", "/", "e", ":", "1">>,
     W_nacos \o <<":", "n">>,
     <<"N", "a", "c", "o", "s", ":", "/", "/", "n">>}

\* What the registry adapter's get_provider does: it returns a provider URI
\* or raises.
ProviderOutcomes ==
    {[err |-> "", uri |-> GoodUri],
     [err |-> "", uri |-> <<"t", "r", "i", ":", "/", "/", "h", ":">> \o Port20880],
     [err |-> "ValueError: service not found in registry", uri |-> <<>>],
     [err |-> "Exception: registry unavailable", uri |-> <<>>]}

\* The calls through a registry: a few parameter values and lists of types.
RegistryCalls ==
    {[registry_address |-> a, params |-> p, param_types |-> t] :
        a \in RegistryAddresses,
        p \in {PyNone, PyStr(W_lisi), DictFoo},
        t \in {NoTypes, Types(<<JavaLang(W_String)>>), Types(<<ComXFoo>>)}}

\* What the transport does with a frame: the reply, or an exception.
TransportOutcomes ==
    {[err |-> "", reply |-> "reply"],
     [err |-> "DubboRequestTimeoutException", reply |-> ""],
     [err |-> "DubboResponseException", reply |-> ""],
     [err |-> "ConnectionError", reply |-> ""]}

(***************************************************************************)
(* The state of the process                                                *)
(*   pc         where the facade call in progress stands: "idle" (none),   *)
(*              "created" (its Request is constructed), "encoded" (the     *)
(*              frame is handed to the transport), "done" (it has ended)   *)
(*   call       the inputs of the call in progress                         *)
(*              with the answer of the registry (resolved) and the calls   *)
(*              of protocol_handler.invoke it made (dispatched)            *)
(*   request    the Request of the call: its dict, its tables classes and  *)
(*              types, its invoke_id                                       *)
(*   frame      the bytes Request.encode returned                          *)
(*   result     how the call ended: the record returned, or the exception  *)
(*              raised to the caller                                       *)
(*   invoke_id  the process-wide counter behind get_invoke_id              *)
(*   cache      DubboClientUtils._protocol_handler_cache, as entries       *)
(*              [k |-> protocol, v |-> handler]                            *)
(*   handlers   the number of protocol handlers created so far             *)
(***************************************************************************)
VARIABLES pc, call, request, frame, result, invoke_id, cache, handlers

vars == <<pc, call, request, frame, result, invoke_id, cache, handlers>>

NoCall == [op |-> "none"]

NoRequest == [body |-> <<>>, classes |-> <<>>, types |-> <<>>, invoke_id |-> 0]

NoResult == [kind |-> "none"]

Returned(record) == [kind |-> "returned", record |-> record]

Raised(exception) == [kind |-> "raised", exception |-> exception]

Init ==
    /\ pc = "idle"
    /\ call = NoCall
    /\ request = NoRequest
    /\ frame = <<>>
    /\ result = NoResult
    /\ invoke_id = 0
    /\ cache = <<>>
    /\ handlers = 0

\* get_invoke_id (dubbo.common.util): the next value of the counter.
GetInvokeId(counter) == counter + 1

\* Request.__init__ with a class table that is not empty: the path of
\* java.lang.Object counts as defined before any frame is made.
RequestInitShared(request_param, id) ==
    [body |-> request_param, classes |-> <<JavaLang(W_Object)>>, types |-> <<>>,
     invoke_id |-> id]

\* Request.__init__
RequestInit(request_param, id) ==
    [body |-> request_param, classes |-> <<>>, types |-> <<>>, invoke_id |-> id]

\* The facade call ends at once with the record or the exception `ended`.
EndCall(ended) ==
    /\ result' = ended
    /\ pc' = "done"
    /\ UNCHANGED <<request, frame, invoke_id>>

\* connection_pool.get constructs the Request of the dict request_param.
CreateRequest(request_param) ==
    /\ invoke_id' = GetInvokeId(invoke_id)
    /\ request' = RequestInit(request_param, GetInvokeId(invoke_id))
    /\ pc' = "created"
    /\ UNCHANGED <<frame, result>>

\* The calls of protocol_handler.invoke that invoke_service makes for the
\* URI, each with the handler it is made on: none when no handler can be
\* created, else one, on the handler the cache holds for the protocol.
Dispatched(service_uri) ==
    LET protocol == ProtocolOf(service_uri)
        cached == \E i \in 1..Len(cache) : cache[i].k = protocol
    IN  IF cached
        THEN <<[service_uri |-> service_uri,
                handler |-> cache[CHOOSE i \in 1..Len(cache) : cache[i].k = protocol].v]>>
        ELSE IF CreateProtocolHandlerError(service_uri) # "" THEN <<>>
        ELSE <<[service_uri |-> service_uri, handler |-> handlers + 1]>>

\* Dispatch with a new handler for every call, cached or not.
DispatchFresh(service_uri, params, param_types) ==
    LET error == CreateProtocolHandlerError(service_uri)
        invoked == HandlerInvoke(service_uri, Interface, Method, params,
                                 param_types, DubboVersion)
    IN  IF error # ""
        THEN /\ EndCall(Returned(Failed("Service invocation exception: " \o error)))
             /\ UNCHANGED <<cache, handlers>>
        ELSE /\ cache' = Append(cache, [k |-> ProtocolOf(service_uri),
                                        v |-> handlers + 1])
             /\ handlers' = handlers + 1
             /\ IF invoked.returned
                THEN EndCall(Returned(invoked.result))
                ELSE CreateRequest(invoked.request_param)

\* DubboClientUtils.invoke_service, to the construction of the Request or to
\* the record it returns before.
Dispatch(service_uri, params, param_types) ==
    LET protocol == ProtocolOf(service_uri)
        cached == \E i \in 1..Len(cache) : cache[i].k = protocol
        error == IF cached THEN "" ELSE CreateProtocolHandlerError(service_uri)
        invoked == HandlerInvoke(service_uri, Interface, Method, params,
                                 param_types, DubboVersion)
    IN  IF error # ""
        THEN /\ EndCall(Returned(Failed("Service invocation exception: " \o error)))
             /\ UNCHANGED <<cache, handlers>>
        ELSE /\ cache' = IF cached THEN cache
                         ELSE Append(cache, [k |-> protocol, v |-> handlers + 1])
             /\ handlers' = IF cached THEN handlers ELSE handlers + 1
             /\ IF invoked.returned
                THEN EndCall(Returned(invoked.result))
                ELSE CreateRequest(invoked.request_param)

InvokeService ==
    /\ pc = "idle"
    /\ invoke_id < MaxInvoke
    /\ \E c \in ServiceCalls :
           /\ call' = [op |-> "invoke_service", service_uri |-> c.service_uri,
                       params |-> c.params, param_types |-> c.param_types,
                       dispatched |-> Dispatched(c.service_uri)]
           /\ Dispatch(c.service_uri, c.params, c.param_types)

\* The answers of get_provider to invoke_with_registry: none when the
\* address does not parse or no adapter is created for its type, else
\* `provider`.
Resolved(registry_address, provider) ==
    LET parsed == ParseRegistryAddress(registry_address)
    IN  IF parsed.err # "" \/ CreateRegistryError(parsed.type) # "" THEN <<>>
        ELSE <<provider>>

\* InvokeWithRegistry with a failover: when get_provider raises, the call is
\* dispatched to the default endpoint.
InvokeWithRegistryFailover ==
    /\ pc = "idle"
    /\ invoke_id < MaxInvoke
    /\ \E c \in RegistryCalls, provider \in ProviderOutcomes :
           /\ call' = [op |-> "invoke_with_registry",
                       registry_address |-> c.registry_address,
                       params |-> c.params, param_types |-> c.param_types,
                       resolved |-> Resolved(c.registry_address, provider),
                       dispatched |->
                           IF Resolved(c.registry_address, provider) = <<>>
                           THEN <<>>
                           ELSE Dispatched(IF provider.err # "" THEN GoodUri
                                           ELSE provider.uri)]
           /\ LET parsed == ParseRegistryAddress(c.registry_address)
              IN  IF parsed.err # ""
                  THEN /\ EndCall(Raised(parsed.err))
                       /\ UNCHANGED <<cache, handlers>>
                  ELSE IF CreateRegistryError(parsed.type) # ""
                  THEN /\ EndCall(Returned(Failed(
                               "Failed to get service provider from registry: "
                                   \o CreateRegistryError(parsed.type))))
                       /\ UNCHANGED <<cache, handlers>>
                  ELSE Dispatch(IF provider.err # "" THEN GoodUri ELSE provider.uri,
                                c.params, c.param_types)

\* DubboClientUtils.invoke_with_registry, the registry adapter answering
\* with `provider`.
InvokeWithRegistry ==
    /\ pc = "idle"
    /\ invoke_id < MaxInvoke
    /\ \E c \in RegistryCalls, provider \in ProviderOutcomes :
           /\ call' = [op |-> "invoke_with_registry",
                       registry_address |-> c.registry_address,
                       params |-> c.params, param_types |-> c.param_types,
                       resolved |-> Resolved(c.registry_address, provider),
                       dispatched |->
                           IF Resolved(c.registry_address, provider) = <<>>
                                  \/ provider.err # ""
                           THEN <<>>
                           ELSE Dispatched(provider.uri)]
           /\ LET parsed == ParseRegistryAddress(c.registry_address)
              IN  IF parsed.err # ""
                  THEN /\ EndCall(Raised(parsed.err))
                       /\ UNCHANGED <<cache, handlers>>
                  ELSE IF CreateRegistryError(parsed.type) # ""
                  THEN /\ EndCall(Returned(Failed(
                               "Failed to get service provider from registry: "
                                   \o CreateRegistryError(parsed.type))))
                       /\ UNCHANGED <<cache, handlers>>
                  ELSE IF provider.err # ""
                  THEN /\ EndCall(Returned(Failed(
                               "Failed to get service provider from registry: "
                                   \o provider.err)))
                       /\ UNCHANGED <<cache, handlers>>
                  ELSE Dispatch(provider.uri, c.params, c.param_types)

\* Request.encode; an exception of the encoder is caught by
\* DubboProtocolHandler.invoke.
RequestEncode ==
    /\ pc = "created"
    /\ LET encoded == Encode(request)
       IN  /\ request' = [request EXCEPT !.classes = encoded.classes,
                                         !.types = encoded.types]
           /\ IF encoded.err = ""
              THEN /\ frame' = encoded.out
                   /\ pc' = "encoded"
                   /\ UNCHANGED result
              ELSE /\ result' = Returned(Failed("Invocation exception: " \o encoded.err))
                   /\ pc' = "done"
                   /\ UNCHANGED frame
    /\ UNCHANGED <<call, invoke_id, cache, handlers>>

\* The transport answers, or fails: DubboProtocolHandler.invoke returns the
\* record of the reply or of the exception.
Transport ==
    /\ pc = "encoded"
    /\ \E outcome \in TransportOutcomes :
           result' = IF outcome.err = "" THEN Returned(Succeeded(outcome.reply))
                     ELSE Returned(Failed("Invocation exception: " \o outcome.err))
    /\ pc' = "done"
    /\ UNCHANGED <<call, request, frame, invoke_id, cache, handlers>>

\* The caller has the result; the Request is dropped.
Return ==
    /\ pc = "done"
    /\ pc' = "idle"
    /\ call' = NoCall
    /\ request' = NoRequest
    /\ frame' = <<>>
    /\ result' = NoResult
    /\ UNCHANGED <<invoke_id, cache, handlers>>

Next ==
    \/ InvokeService
    \/ InvokeWithRegistry
    \/ RequestEncode
    \/ Transport
    \/ Return

Spec == Init /\ [][Next]_vars

(***************************************************************************)
(* The encoder under a caller of DubboClient.call: arguments of every      *)
(* shape, named objects among them, in a Request of their own.             *)
(***************************************************************************)
\* The most arguments of such a call.
MaxArguments == 2

ComXBar == Dotted(<<W_com, W_x, W_Bar>>)

ObjectFoo ==
    Object(ComXFoo, << [k |-> W_name, v |-> PyStr(W_lisi)], [k |-> W_age, v |-> PyInt(25)] >>)

ObjectBar == Object(ComXBar, << [k |-> W_name, v |-> PyStr(ZhangSan)] >>)

\* A com.x.Foo that holds a com.x.Bar and another com.x.Foo.
ObjectNested ==
    Object(ComXFoo, << [k |-> W_name, v |-> ObjectBar], [k |-> W_child, v |-> ObjectFoo] >>)

ArgumentValues ==
    {PyNone, PyBool(TRUE),
     PyInt(MAX_INT_32), PyInt(-MAX_INT_32), PyInt(MIN_INT_32),
     PyBig(1, MIN_INT_32), PyBig(-1, MAX_INT_32),
     PyFloat(1), PyStr(W_lisi),
     ObjectNested,
     Object(JavaUtil(W_ArrayList),
            << [k |-> W_elementData, v |-> PyList(<<ObjectBar, ObjectBar>>)],
               [k |-> W_size, v |-> PyInt(2)] >>),
     PyList(<<>>), PyList(<<PyList(<<>>)>>), PyList(<<PyInt(25), PyInt(MIN_INT_32)>>),
     PyList(<<ObjectFoo, ObjectNested>>),
     PyList(<<PyList(<<PyInt(25)>>)>>), DictFoo}

RECURSIVE ArgumentLists(_)
\* The argument lists of at most n values.
ArgumentLists(n) ==
    IF n = 0 THEN {<<>>}
    ELSE LET shorter == ArgumentLists(n - 1)
         IN  shorter \cup {Append(xs, e) : xs \in {ys \in shorter : Len(ys) = n - 1},
                                           e \in ArgumentValues}

\* The dicts DubboClient.call makes of them, without declared types and with
\* some.
RequestParams ==
    {ClientCall([interface |-> Interface, dubbo_version |-> DubboVersion],
                Method, PyList(args), types) :
        args \in ArgumentLists(MaxArguments),
        types \in {NoTypes, Types(<<ComXFoo>>)}}

InitRequest ==
    /\ pc = "created"
    /\ call = NoCall
    /\ request \in {RequestInit(request_param, 1) : request_param \in RequestParams}
    /\ frame = <<>>
    /\ result = NoResult
    /\ invoke_id = 1
    /\ cache = <<>>
    /\ handlers = 0

SpecRequest == InitRequest /\ [][RequestEncode]_vars

(***************************************************************************)
(* Requests of one 32-bit integer, for the forms of Request._encode_int    *)
(***************************************************************************)
IntWindow == 4

\* The 32-bit integers within IntWindow of a bound of a form of _encode_int.
IntValues ==
    {n \in UNION {(b - IntWindow)..(b + IntWindow) :
                     b \in {-16, 47, -2048, 2047, -262144, 262143}} : TRUE}
        \cup {MIN_INT_32 + i : i \in 0..IntWindow}
        \cup {MAX_INT_32 - i : i \in 0..IntWindow}

InitInt ==
    /\ pc = "created"
    /\ call = NoCall
    /\ request \in
           {RequestInit(ClientCall([interface |-> Interface,
                                    dubbo_version |-> DubboVersion],
                                   Method, PyList(<<PyInt(n)>>), NoTypes), 1) :
               n \in IntValues}
    /\ frame = <<>>
    /\ result = NoResult
    /\ invoke_id = 1
    /\ cache = <<>>
    /\ handlers = 0

SpecInt == InitInt /\ [][RequestEncode]_vars

(***************************************************************************)
(* Requests of one list, for the check of Request._encode_list             *)
(***************************************************************************)
MaxItems == 2

\* One element of each kind of value the encoder knows.
ListElements ==
    {PyBool(TRUE), PyInt(25), PyBig(1, MIN_INT_32), PyFloat(1), PyStr(W_lisi),
     PyNone, ObjectFoo, PyList(<<PyInt(25)>>)}

RECURSIVE ItemsUpTo(_)
\* The lists of at most n of them.
ItemsUpTo(n) ==
    IF n = 0 THEN {<<>>}
    ELSE LET shorter == ItemsUpTo(n - 1)
         IN  shorter \cup {Append(xs, e) : xs \in {ys \in shorter : Len(ys) = n - 1},
                                           e \in ListElements}

InitList ==
    /\ pc = "created"
    /\ call = NoCall
    /\ request \in
           {RequestInit(ClientCall([interface |-> Interface,
                                    dubbo_version |-> DubboVersion],
                                   Method, PyList(<<PyList(xs)>>), NoTypes), 1) :
               xs \in ItemsUpTo(MaxItems)}
    /\ frame = <<>>
    /\ result = NoResult
    /\ invoke_id = 1
    /\ cache = <<>>
    /\ handlers = 0

SpecList == InitList /\ [][RequestEncode]_vars

(***************************************************************************)
(* Requests of several lists, short and long, each declared as a          *)
(* java.util.List, for the type tags and the headers of                    *)
(* Request._encode_list                                                    *)
(***************************************************************************)
\* The most lists among the arguments of a request.
MaxLists == 3

\* The lengths of the lists: none, the short form up to its end, the long
\* form from its start.
ListLengths == {0, 1, 6, 7}

\* The lists: n times the same boolean, int or text.
TaggedLists ==
    {PyList([i \in 1..n |-> e]) :
        n \in ListLengths, e \in {PyBool(TRUE), PyInt(25), PyStr(W_lisi)}}

RECURSIVE ListsUpToOf(_)
\* The argument lists of one to n of them.
ListsUpToOf(n) ==
    IF n = 0 THEN {<<>>}
    ELSE LET shorter == ListsUpToOf(n - 1)
         IN  shorter \cup {Append(xs, e) : xs \in {ys \in shorter : Len(ys) = n - 1},
                                           e \in TaggedLists}

InitLists ==
    /\ pc = "created"
    /\ call = NoCall
    /\ request \in
           {RequestInit(ClientCall([interface |-> Interface,
                                    dubbo_version |-> DubboVersion],
                                   Method, PyList(xs),
                                   Types([i \in 1..Len(xs) |-> JavaUtil(W_List)])),
                        1) :
               xs \in ListsUpToOf(MaxLists) \ {<<>>}}
    /\ frame = <<>>
    /\ result = NoResult
    /\ invoke_id = 1
    /\ cache = <<>>
    /\ handlers = 0

SpecLists == InitLists /\ [][RequestEncode]_vars

(***************************************************************************)
(* Long texts: Request._encode_str on a text of n times the character c,   *)
(* under a caller that keeps what is emitted: the bytes ahead of the       *)
(* characters as the body carries them (masked to 8 bits), and the number  *)
(* of characters and of bytes that follow them.                            *)
(***************************************************************************)
\* How far around 0x1f, 0x3ff and 0xffff the lengths go.
StrWindow == 4

\* The lengths of the texts.
StrLengths ==
    UNION {{31 - i, 31 + i, 1023 - i, 1023 + i, 65535 - i, 65535 + i} :
              i \in 0..StrWindow}

\* _encode_str on the text of n times c, and the mask of the body.
EncodeStrRun(c, n) ==
    [prefix |-> MaskBytes(StrPrefix(n)),
     characters |-> n,
     bytes |-> n * Len(Utf8Char(Ord[c]))]

InitStr ==
    /\ pc = "text"
    /\ call \in {[op |-> "encode_str", character |-> c, length |-> n] :
                    c \in {"a", "U+00E9", "U+5F20"}, n \in StrLengths}
    /\ request = NoRequest
    /\ frame = <<>>
    /\ result = NoResult
    /\ invoke_id = 0
    /\ cache = <<>>
    /\ handlers = 0

\* The caller has the emission.
EncodeText ==
    /\ pc = "text"
    /\ pc' = "emitted"
    /\ result' = Returned(EncodeStrRun(call.character, call.length))
    /\ UNCHANGED <<call, request, frame, invoke_id, cache, handlers>>

SpecStr == InitStr /\ [][EncodeText]_vars

(***************************************************************************)
(* Calls with nested mappings, and calls that fail: invoke_service on the  *)
(* good URI with values that hold several mappings, for what the coercion  *)
(* hands to the encoder, and on URIs and types it refuses. The call keeps  *)
(* the cache it found (cache_before).                                      *)
(***************************************************************************)
\* {"name": "lisi"}
DictName == PyDict(<< [k |-> W_name, v |-> PyStr(W_lisi)] >>)

\* The values of the entries of a mapping.
NestedLeaves == {PyStr(W_lisi), DictName, DictFoo}

\* {"name": a, "child": b}
NestedMappings ==
    {PyDict(<< [k |-> W_name, v |-> a], [k |-> W_child, v |-> b] >>) :
        a \in NestedLeaves, b \in NestedLeaves}

\* The calls: a mapping, or a list of two mappings, against a class, a list
\* of the class, a map, or no declared type; a text on a URI without port
\* and on one of another protocol; a text against two declared types.
NestedCalls ==
    {[service_uri |-> GoodUri, params |-> p, param_types |-> t] :
        p \in NestedMappings
                 \cup {PyList(<<a, b>>) : a \in {DictName, DictFoo},
                                          b \in {DictName, DictFoo, DictNested}},
        t \in {Types(<<ComXFoo>>),
               Types(<<Generic(JavaUtil(W_List), ComXFoo)>>),
               Types(<<JavaUtil(W_Map)>>),
               NoTypes}}
    \cup {[service_uri |-> u, params |-> PyStr(W_lisi),
           param_types |-> Types(<<JavaLang(W_String)>>)] :
              u \in {<<"h">>, <<"r", "e", "s", "t", ":", "/", "/", "h", ":">> \o Port20880}}
    \cup {[service_uri |-> GoodUri, params |-> PyStr(W_lisi),
           param_types |-> Types(<<JavaLang(W_String), JavaLang(W_Integer)>>)]}

\* DubboClientUtils.invoke_service on one of these calls.
InvokeNested ==
    /\ pc = "idle"
    /\ invoke_id < MaxInvoke
    /\ \E c \in NestedCalls :
           /\ call' = [op |-> "invoke_service", service_uri |-> c.service_uri,
                       params |-> c.params, param_types |-> c.param_types,
                       dispatched |-> Dispatched(c.service_uri),
                       cache_before |-> cache]
           /\ Dispatch(c.service_uri, c.params, c.param_types)

NextNested ==
    \/ InvokeNested
    \/ RequestEncode
    \/ Transport
    \/ Return

SpecNested == Init /\ [][NextNested]_vars

(***************************************************************************)
(* The choice of a provider by weight:                                     *)
(* RegistryStrategy.select_provider_by_weight, under a caller that hands   *)
(* it a list of (uri, weight) and keeps what it returns.  random.random()  *)
(* is a multiple random / Grain of 1 / Grain, 0 <= random < Grain, and     *)
(* random.choice takes the element of index choice.                        *)
(***************************************************************************)
MaxHosts == 3

MaxWeight == 2

Grain == 4

RECURSIVE SumWeights(_, _)
\* The sum of the weights of the first n hosts.
SumWeights(weighted_hosts, n) ==
    IF n = 0 THEN 0
    ELSE SumWeights(weighted_hosts, n - 1) + weighted_hosts[n].weight

RECURSIVE SelectLoopInclusive(_, _, _, _, _)
\* SelectLoop with `hit <= current_weight` for its test.
SelectLoopInclusive(weighted_hosts, i, current_weight, random, choice) ==
    IF i > Len(weighted_hosts) THEN weighted_hosts[choice].uri
    ELSE IF random * SumWeights(weighted_hosts, Len(weighted_hosts))
                <= (current_weight + weighted_hosts[i].weight) * Grain
    THEN weighted_hosts[i].uri
    ELSE SelectLoopInclusive(weighted_hosts, i + 1,
                             current_weight + weighted_hosts[i].weight,
                             random, choice)

RECURSIVE SelectLoop(_, _, _, _, _)
\* The loop over the hosts, from host i on: hit is random / Grain of the
\* total weight, and hit < current_weight is compared in units of 1 / Grain.
SelectLoop(weighted_hosts, i, current_weight, random, choice) ==
    IF i > Len(weighted_hosts) THEN weighted_hosts[choice].uri
    ELSE IF random * SumWeights(weighted_hosts, Len(weighted_hosts))
                < (current_weight + weighted_hosts[i].weight) * Grain
    THEN weighted_hosts[i].uri
    ELSE SelectLoop(weighted_hosts, i + 1,
                    current_weight + weighted_hosts[i].weight, random, choice)

\* select_provider_by_weight: the URI returned, or the ValueError raised.
SelectProviderByWeight(weighted_hosts, random, choice) ==
    IF weighted_hosts = <<>>
    THEN Raised("ValueError: No available service provider")
    ELSE IF SumWeights(weighted_hosts, Len(weighted_hosts)) <= 0
    THEN Returned(weighted_hosts[choice].uri)
    ELSE Returned(SelectLoop(weighted_hosts, 1, 0, random, choice))

\* The URI of the i-th instance of the registry.
ProviderUri(i) ==
    W_dubbo \o <<":", "/", "/", "h", Digits[i + 1], ":">> \o Port20880

RECURSIVE WeightedHosts(_)
\* The lists of at most n instances, each with a weight of 0..MaxWeight.
WeightedHosts(n) ==
    IF n = 0 THEN {<<>>}
    ELSE LET shorter == WeightedHosts(n - 1)
         IN  shorter \cup {Append(hs, [uri |-> ProviderUri(n), weight |-> w]) :
                              hs \in {gs \in shorter : Len(gs) = n - 1},
                              w \in 0..MaxWeight}

InitSelect ==
    /\ pc = "registry"
    /\ call \in {[op |-> "select_provider_by_weight", weighted_hosts |-> hs,
                  random |-> 0, choice |-> 1] : hs \in WeightedHosts(MaxHosts)}
    /\ request = NoRequest
    /\ frame = <<>>
    /\ result = NoResult
    /\ invoke_id = 0
    /\ cache = <<>>
    /\ handlers = 0

\* The call of select_provider_by_weight, with what the random module gives.
SelectProvider ==
    /\ pc = "registry"
    /\ \E random \in 0..(Grain - 1),
          choice \in 1..(IF call.weighted_hosts = <<>> THEN 1
                         ELSE Len(call.weighted_hosts)) :
           /\ call' = [call EXCEPT !.random = random, !.choice = choice]
           /\ result' = SelectProviderByWeight(call.weighted_hosts, random, choice)
    /\ pc' = "selected"
    /\ UNCHANGED <<request, frame, invoke_id, cache, handlers>>

SpecSelect == InitSelect /\ [][SelectProvider]_vars

(***************************************************************************)
(* The tool's parser of the parameter_types text:                          *)
(* DubboInvokeTool._parse_parameter_types, under a caller that hands it a  *)
(* text and keeps the list it returns.                                     *)
(***************************************************************************)
\* The longest parameter_types text drawn from TypeChars.
MaxTypesLen == 5

RECURSIVE ParseLoopAnyComma(_, _, _, _, _)
\* ParseLoop with every comma a separator.
ParseLoopAnyComma(parameter_types, i, types_list, current_type, bracket_count) ==
    CASE i > Len(parameter_types) ->
             IF Strip(current_type) # <<>>
             THEN Append(types_list, Strip(current_type))
             ELSE types_list
      [] i <= Len(parameter_types) /\ parameter_types[i] = "," ->
             ParseLoopAnyComma(parameter_types, i + 1,
                               IF Strip(current_type) # <<>>
                               THEN Append(types_list, Strip(current_type))
                               ELSE types_list,
                               <<>>, bracket_count)
      [] OTHER ->
             ParseLoopAnyComma(parameter_types, i + 1, types_list,
                               Append(current_type, parameter_types[i]),
                               bracket_count)

RECURSIVE ParseLoop(_, _, _, _, _)
\* The loop `for char in parameter_types` from character i on, and the
\* statements after it.
ParseLoop(parameter_types, i, types_list, current_type, bracket_count) ==
    CASE i > Len(parameter_types) ->
             IF Strip(current_type) # <<>>
             THEN Append(types_list, Strip(current_type))
             ELSE types_list
      [] i <= Len(parameter_types) /\ parameter_types[i] = "<" ->
             ParseLoop(parameter_types, i + 1, types_list,
                       Append(current_type, "<"), bracket_count + 1)
      [] i <= Len(parameter_types) /\ parameter_types[i] = ">" ->
             ParseLoop(parameter_types, i + 1, types_list,
                       Append(current_type, ">"), bracket_count - 1)
      [] i <= Len(parameter_types) /\ parameter_types[i] = ","
             /\ bracket_count = 0 ->
             ParseLoop(parameter_types, i + 1,
                       IF Strip(current_type) # <<>>
                       THEN Append(types_list, Strip(current_type))
                       ELSE types_list,
                       <<>>, bracket_count)
      [] OTHER ->
             ParseLoop(parameter_types, i + 1, types_list,
                       Append(current_type, parameter_types[i]), bracket_count)

\* DubboInvokeTool._parse_parameter_types
ParseParameterTypes(parameter_types) ==
    IF parameter_types = <<>> \/ Strip(parameter_types) = <<>> THEN <<>>
    ELSE ParseLoop(parameter_types, 1, <<>>, <<>>, 0)

\* The characters of the texts: a letter, the separator, the brackets, the
\* space.
TypeChars == {"a", ",", "<", ">", " "}

RECURSIVE TextsUpTo(_)
\* The texts of at most n characters.
TextsUpTo(n) ==
    IF n = 0 THEN {<<>>}
    ELSE LET shorter == TextsUpTo(n - 1)
         IN  shorter \cup {Append(t, c) : t \in {u \in shorter : Len(u) = n - 1},
                                          c \in TypeChars}

\* "int,Map<String,Integer>,List<User>", the example of the docstring.
DocstringTypes ==
    W_int \o <<",">> \o W_Map \o <<"<">> \o W_String \o <<",">> \o W_Integer
        \o <<">", ",">> \o W_List \o <<"<", "U", "s", "e", "r", ">">>

\* "Map<String, List<Foo>> , int"
NestedTypes ==
    Generic(W_Map, W_String \o <<",", " ">> \o Generic(W_List, W_Foo))
        \o <<" ", ",", " ">> \o W_int

TypeTexts == TextsUpTo(MaxTypesLen) \cup {DocstringTypes, NestedTypes}

InitTypes ==
    /\ pc = "tool"
    /\ call \in {[op |-> "parse_parameter_types", parameter_types |-> t] :
                    t \in TypeTexts}
    /\ request = NoRequest
    /\ frame = <<>>
    /\ result = NoResult
    /\ invoke_id = 0
    /\ cache = <<>>
    /\ handlers = 0

\* The caller has the list of types.
ParseTypes ==
    /\ pc = "tool"
    /\ pc' = "parsed"
    /\ result' = Returned(ParseParameterTypes(call.parameter_types))
    /\ UNCHANGED <<call, request, frame, invoke_id, cache, handlers>>

SpecTypes == InitTypes /\ [][ParseTypes]_vars

(***************************************************************************)
(* Two requests encoded at once: two threads each run Request.encode on a  *)
(* Request of their own, and the scheduler switches between them after any *)
(* argument. Here pc, request and frame hold one entry per thread; a       *)
(* request carries, besides its dict and its tables, the bytes of the      *)
(* arguments encoded so far (out) and the index of the next one (next).    *)
(***************************************************************************)
\* The arguments of the two requests: named objects and typed lists, so that
\* both requests define classes and list types.
PairValues == {ObjectFoo, PyList(<<PyInt(25)>>), PyList(<<ObjectFoo, ObjectFoo>>)}

\* The most arguments of one of the two requests.
MaxPairArguments == 2

RECURSIVE PairLists(_)
\* The argument lists of at most n of them.
PairLists(n) ==
    IF n = 0 THEN {<<>>}
    ELSE LET shorter == PairLists(n - 1)
         IN  shorter \cup {Append(xs, e) : xs \in {ys \in shorter : Len(ys) = n - 1},
                                           e \in PairValues}

\* Request.__init__ for the arguments, with nothing encoded yet.
PairRequest(arguments, id) ==
    [body |-> ClientCall([interface |-> Interface, dubbo_version |-> DubboVersion],
                         Method, PyList(arguments), NoTypes),
     classes |-> <<>>, types |-> <<>>, invoke_id |-> id, out |-> <<>>, next |-> 1]

InitPair ==
    /\ pc = <<"created", "created">>
    /\ call = NoCall
    /\ request \in {<<PairRequest(a, 1), PairRequest(b, 2)>> :
                       a \in PairLists(MaxPairArguments),
                       b \in PairLists(MaxPairArguments)}
    /\ frame = <<<<>>, <<>>>>
    /\ result = NoResult
    /\ invoke_id = 2
    /\ cache = <<>>
    /\ handlers = 0

\* The tables of every request are those of the first one.
RequestTablesShared(requests, i) ==
    [classes |-> requests[1].classes, types |-> requests[1].types]

\* self.__classes and self.types of the Request of thread i.
RequestTables(requests, i) ==
    [classes |-> requests[i].classes, types |-> requests[i].types]

\* Thread i encodes the next argument of its request: one turn of the loop
\* of _encode_request_body over the arguments.
EncodeArgument(i) ==
    /\ pc[i] = "created"
    /\ request[i].next <= Len(request[i].body.arguments)
    /\ LET encoded == EncodeSingleValue(Done(RequestTables(request, i), <<>>),
                                        request[i].body.arguments[request[i].next])
       IN  IF encoded.err = ""
           THEN /\ request' = [request EXCEPT ![i].classes = encoded.classes,
                                              ![i].types = encoded.types,
                                              ![i].out = @ \o encoded.out,
                                              ![i].next = @ + 1]
                /\ UNCHANGED pc
           ELSE /\ pc' = [pc EXCEPT ![i] = "failed"]
                /\ UNCHANGED request
    /\ UNCHANGED <<call, frame, result, invoke_id, cache, handlers>>

\* Thread i has encoded every argument: the body and the frame are put
\* together.
EncodeFrame(i) ==
    /\ pc[i] = "created"
    /\ request[i].next > Len(request[i].body.arguments)
    /\ LET tables == RequestTables(request, i)
           encoded == AssembleFrame(
                          AssembleBody(request[i].body, tables,
                                       ParameterTypesString(request[i].body),
                                       Done(tables, request[i].out)),
                          request[i].invoke_id)
       IN  IF encoded.err = ""
           THEN /\ frame' = [frame EXCEPT ![i] = encoded.out]
                /\ pc' = [pc EXCEPT ![i] = "encoded"]
           ELSE /\ pc' = [pc EXCEPT ![i] = "failed"]
                /\ UNCHANGED frame
    /\ UNCHANGED <<call, request, result, invoke_id, cache, handlers>>

NextPair ==
    \/ \E i \in {1, 2} : EncodeArgument(i)
    \/ \E i \in {1, 2} : EncodeFrame(i)

SpecPair == InitPair /\ [][NextPair]_vars

(***************************************************************************)
(* Concurrent calls of invoke_service on the one facade of the process     *)
(* (dubbo_client_utils): each thread runs the steps of the method in its   *)
(* order, and the scheduler switches between threads after any step. Here  *)
(* pc, call and result hold one entry per thread; a call carries its URI,  *)
(* the handler the thread has created (created, 0 for none) and the one it *)
(* has read from the cache (handler, 0 for none).                          *)
(*   pc[i]  "check" (before `protocol not in cache`), "create" (before     *)
(*          create_protocol_handler), "store" (before the assignment to    *)
(*          the cache), "read" (before cache[protocol]), "invoke" (before  *)
(*          protocol_handler.invoke), "returned"                           *)
(***************************************************************************)
\* The threads that call the facade at once.
MaxThreads == 2

\* The URIs of the concurrent calls: the scheme dubbo in three writings, and
\* a scheme without handler.
ThreadUris ==
    {GoodUri, <<"h", ":">> \o Port20880,
     <<"D", "U", "B", "B", "O", ":", "/", "/", "h", ":", "1">>,
     <<"r", "e", "s", "t", ":", "/", "/", "h", ":">> \o Port20880}

\* What protocol_handler.invoke returns.
InvokeOutcomes == {Succeeded("reply"), Failed("Invocation exception: ConnectionError")}

InitThreads ==
    /\ pc = [i \in 1..MaxThreads |-> "check"]
    /\ call \in [1..MaxThreads ->
                    {[service_uri |-> u, created |-> 0, handler |-> 0] : u \in ThreadUris}]
    /\ request = NoRequest
    /\ frame = <<>>
    /\ result = [i \in 1..MaxThreads |-> NoResult]
    /\ invoke_id = 0
    /\ cache = <<>>
    /\ handlers = 0

\* `protocol in self._protocol_handler_cache`
InCache(protocol, entries) == \E j \in 1..Len(entries) : entries[j].k = protocol

\* The assignment to the cache as an append: an entry more at every store.
CacheAppend(entries, protocol, handler) ==
    Append(entries, [k |-> protocol, v |-> handler])

\* `self._protocol_handler_cache[protocol] = handler`: the entry of the key
\* is replaced, or added when the dict has none.
CacheStore(entries, protocol, handler) ==
    IF InCache(protocol, entries)
    THEN [j \in 1..Len(entries) |->
             IF entries[j].k = protocol THEN [k |-> protocol, v |-> handler]
             ELSE entries[j]]
    ELSE Append(entries, [k |-> protocol, v |-> handler])

\* The except clause of invoke_service.
ThreadFails(i, exception) ==
    /\ result' = [result EXCEPT
                     ![i] = Returned(Failed("Service invocation exception: "
                                                \o exception))]
    /\ pc' = [pc EXCEPT ![i] = "returned"]

\* if protocol not in self._protocol_handler_cache
ThreadCheck(i) ==
    /\ pc[i] = "check"
    /\ pc' = [pc EXCEPT ![i] = IF InCache(ProtocolOf(call[i].service_uri), cache)
                               THEN "read" ELSE "create"]
    /\ UNCHANGED <<call, request, frame, result, invoke_id, cache, handlers>>

\* ProtocolFactory.create_protocol_handler(service_uri)
ThreadCreate(i) ==
    /\ pc[i] = "create"
    /\ IF CreateProtocolHandlerError(call[i].service_uri) # ""
       THEN /\ ThreadFails(i, CreateProtocolHandlerError(call[i].service_uri))
            /\ UNCHANGED <<call, handlers>>
       ELSE /\ handlers' = handlers + 1
            /\ call' = [call EXCEPT ![i].created = handlers + 1]
            /\ pc' = [pc EXCEPT ![i] = "store"]
            /\ UNCHANGED result
    /\ UNCHANGED <<request, frame, invoke_id, cache>>

\* self._protocol_handler_cache[protocol] = the handler created
ThreadStore(i) ==
    /\ pc[i] = "store"
    /\ cache' = CacheStore(cache, ProtocolOf(call[i].service_uri), call[i].created)
    /\ pc' = [pc EXCEPT ![i] = "read"]
    /\ UNCHANGED <<call, request, frame, result, invoke_id, handlers>>

\* protocol_handler = self._protocol_handler_cache[protocol]
ThreadRead(i) ==
    /\ pc[i] = "read"
    /\ LET protocol == ProtocolOf(call[i].service_uri)
       IN  IF InCache(protocol, cache)
           THEN /\ call' = [call EXCEPT
                               ![i].handler =
                                   cache[CHOOSE j \in 1..Len(cache) :
                                             cache[j].k = protocol].v]
                /\ pc' = [pc EXCEPT ![i] = "invoke"]
                /\ UNCHANGED result
           ELSE /\ ThreadFails(i, "KeyError")
                /\ UNCHANGED call
    /\ UNCHANGED <<request, frame, invoke_id, cache, handlers>>

\* return protocol_handler.invoke(...)
ThreadInvoke(i) ==
    /\ pc[i] = "invoke"
    /\ \E outcome \in InvokeOutcomes :
           result' = [result EXCEPT ![i] = Returned(outcome)]
    /\ pc' = [pc EXCEPT ![i] = "returned"]
    /\ UNCHANGED <<call, request, frame, invoke_id, cache, handlers>>

NextThreads ==
    \/ \E i \in 1..MaxThreads : ThreadCheck(i)
    \/ \E i \in 1..MaxThreads : ThreadCreate(i)
    \/ \E i \in 1..MaxThreads : ThreadStore(i)
    \/ \E i \in 1..MaxThreads : ThreadRead(i)
    \/ \E i \in 1..MaxThreads : ThreadInvoke(i)

SpecThreads == InitThreads /\ [][NextThreads]_vars

(***************************************************************************)
(* The registry factory: RegistryFactory.create_registry, under a caller   *)
(* that hands it a registry type and keeps the strategy it returns or the  *)
(* exception it raises.                                                    *)
(***************************************************************************)
\* The longest registry type drawn from its characters.
MaxRegistryTypeLen == 5

\* RegistryFactory.create_registry: [err, strategy], the strategy by the
\* name of its class.
CreateRegistry(registry_type) ==
    IF registry_type = W_zookeeper
    THEN [err |-> "ValueError: Registry: unsupported type", strategy |-> ""]
    ELSE IF registry_type = W_nacos
    THEN [err |-> "", strategy |-> "NacosRegistryStrategy"]
    ELSE [err |-> "ValueError: Registry: unsupported type", strategy |-> ""]

RECURSIVE RegistryTexts(_)
\* The texts of at most n characters among "n" and "z".
RegistryTexts(n) ==
    IF n = 0 THEN {<<>>}
    ELSE LET shorter == RegistryTexts(n - 1)
         IN  shorter \cup {Append(t, c) : t \in {s \in shorter : Len(s) = n - 1},
                                          c \in {"n", "z"}}

\* The registry types: the two the factory names, the one of the test of an
\* invalid type, the two in another case, and short texts.
RegistryTypes ==
    {W_zookeeper, W_nacos, <<"i", "n", "v", "a", "l", "i", "d">>,
     <<"N", "a", "c", "o", "s">>, <<"Z", "o", "o", "k", "e", "e", "p", "e", "r">>,
     W_nacos \o <<" ">>, W_zookeeper \o <<"s">>}
        \cup RegistryTexts(MaxRegistryTypeLen)

InitRegistry ==
    /\ pc = "factory"
    /\ call \in {[op |-> "create_registry", registry_type |-> t] : t \in RegistryTypes}
    /\ request = NoRequest
    /\ frame = <<>>
    /\ result = NoResult
    /\ invoke_id = 0
    /\ cache = <<>>
    /\ handlers = 0

\* The caller has the strategy, or the exception.
CreateRegistryStrategy ==
    /\ pc = "factory"
    /\ pc' = "strategy"
    /\ LET created == CreateRegistry(call.registry_type)
       IN  result' = IF created.err # "" THEN Raised(created.err)
                     ELSE Returned(created.strategy)
    /\ UNCHANGED <<call, request, frame, invoke_id, cache, handlers>>

SpecRegistry == InitRegistry /\ [][CreateRegistryStrategy]_vars

(***************************************************************************)
(* The provider and the tool: DubboInvokerProvider._validate_credentials   *)
(* on the credentials a user configures, then DubboInvokeTool._invoke on   *)
(* tool_parameters, reading the credentials the provider accepted. The     *)
(* tool's facade call runs through RequestEncode and Transport as every    *)
(* other one; ToolYield is the tool's end of it.                           *)
(*   pc    "provider" (credentials configured, not validated), "rejected"  *)
(*         (validation raised), "tool" (the tool may be invoked),          *)
(*         "finished" (the generator _invoke is exhausted or has raised)   *)
(*   call  the credentials, then the tool's inputs and what it called      *)
(***************************************************************************)
\* A key a dict does not hold.
Absent == [t |-> "absent"]

\* A text json.loads parses to `value`.
Json(value) == [t |-> "json", v |-> value]

\* json.loads on the texts of the model: [err, value].
JsonLoads(text) ==
    IF text.t = "json" THEN [err |-> "", value |-> text.v]
    ELSE [err |-> "JSONDecodeError", value |-> PyNone]

\* dict.get(key, default) on a value that may be Absent.
Get(value, default) == IF value = Absent THEN default ELSE value

\* int(value) on an int or a str: [err, n].
IntOf(value) ==
    CASE value.t = "int" -> [err |-> "", n |-> value.v]
      [] value.t = "str" -> ParseInt(value.v)
      [] OTHER -> [err |-> "TypeError: int() argument must be a string or a number",
                   n |-> 0]

\* bool(value) on None, an int or a str.
PyTruthy(value) ==
    CASE value.t = "null" -> FALSE
      [] value.t = "int" -> value.v # 0 \/ value.w # 0
      [] value.t = "str" -> value.v # <<>>
      [] OTHER -> TRUE

\* _validate_credentials on the timeout configured: the message of the
\* ValueError it raises, "" when it returns.
ValidateTimeout(configured) ==
    LET timeout == Get(configured, PyStr(<<"6", "0", "0", "0", "0">>))
        timeout_value == IntOf(timeout)
    IN  IF ~PyTruthy(timeout) THEN ""
        ELSE IF timeout_value.err # ""
        THEN "ValueError: Invalid timeout value. Must be a positive integer in milliseconds"
        ELSE IF timeout_value.n <= 0
        THEN "ValueError: Timeout must be a positive integer"
        ELSE IF timeout_value.n > 300000
        THEN "ValueError: Timeout cannot exceed 300000ms (5 minutes)"
        ELSE ""

\* parameter_values or parameter_types is None, or a text that strip()
\* leaves empty.
Blank(text) == text = PyNone \/ (text.t = "str" /\ Strip(text.v) = <<>>)

\* DubboInvokeTool._process_typed_parameters: [err, values, types].
ProcessTypedParameters(parameter_types, parameter_values) ==
    LET loaded == JsonLoads(parameter_values)
        types_list == ParseParameterTypes(parameter_types.v)
        invalid == [err |-> "ValueError: Parameter values must be in valid JSON format",
                    values |-> PyNone, types |-> NoTypes]
    IN  CASE Blank(parameter_types) /\ Blank(parameter_values) ->
                [err |-> "", values |-> PyNone, types |-> Types(<<>>)]
          [] Blank(parameter_types) /\ ~Blank(parameter_values) ->
                IF loaded.err # "" THEN invalid
                ELSE [err |-> "", values |-> loaded.value, types |-> NoTypes]
          [] ~Blank(parameter_types) /\ Blank(parameter_values) ->
                [err |-> "ValueError: Parameter types provided but parameter values not provided",
                 values |-> PyNone, types |-> NoTypes]
          [] OTHER ->
                IF loaded.err # "" THEN invalid
                ELSE IF Len(types_list) = 1
                THEN [err |-> "", values |-> loaded.value, types |-> Types(types_list)]
                ELSE IF loaded.value.t # "list"
                THEN [err |-> "ValueError: For multi-parameter invocation, parameter_values must be a JSON array",
                      values |-> PyNone, types |-> NoTypes]
                ELSE IF Len(loaded.value.v) # Len(types_list)
                THEN [err |-> "ValueError: Number of parameter values does not match number of parameter types",
                      values |-> PyNone, types |-> NoTypes]
                ELSE [err |-> "", values |-> loaded.value, types |-> Types(types_list)]

\* The timeouts a user configures: texts and ints, in the range, at its
\* ends and outside, and texts that are no number.
TimeoutValues ==
    {Absent, PyNone, PyStr(<<>>), PyStr(<<"a", "b", "c">>),
     PyStr(<<"0">>), PyStr(<<"1">>), PyStr(<<"-", "1", "0", "0", "0">>),
     PyStr(<<"6", "0", "0", "0", "0">>),
     PyStr(<<"3", "0", "0", "0", "0", "0">>),
     PyStr(<<"3", "0", "0", "0", "0", "1">>),
     PyInt(0), PyInt(1), PyInt(-1), PyInt(300000), PyInt(300001)}

\* The tool_parameters of an invocation.
ToolParameters ==
    [interface : {<<>>, Interface},
     method : {<<>>, Method},
     registry_address : {<<>>,
                         W_nacos \o <<":", "/", "/", "n", ":", "8", "8", "4", "8">>,
                         W_zookeeper \o <<":", "/", "/", "z", ":", "2", "1", "8", "1">>,
                         W_nacos \o <<":", "n">>},
     service_uri : {<<>>, GoodUri, <<"h">>},
     parameter_types : {PyNone, PyStr(<<" ">>), PyStr(JavaLang(W_String)),
                        PyStr(W_int \o <<",", " ">> \o JavaLang(W_String)),
                        PyStr(<<",">>)},
     parameter_values : {PyNone, PyStr(<<" ">>), PyStr(<<"{">>),
                         Json(PyStr(W_lisi)),
                         Json(PyList(<<PyInt(25), PyStr(W_lisi)>>)),
                         Json(PyList(<<>>))}]

\* The generator has yielded `messages` and is exhausted.
Yielded(messages) == [kind |-> "yielded", messages |-> messages]

\* create_text_message
TextMessage(text) == [kind |-> "text", text |-> text]

\* create_text_message(json.dumps(record))
JsonMessage(record) == [kind |-> "json", record |-> record]

\* The credentials are configured; with no runtime the tool has none.
InitTool ==
    /\ \/ /\ pc = "provider"
          /\ call \in {[op |-> "credentials", runtime |-> TRUE, timeout |-> t] :
                          t \in TimeoutValues}
       \/ /\ pc = "tool"
          /\ call = [op |-> "credentials", runtime |-> FALSE, timeout |-> Absent]
    /\ request = NoRequest
    /\ frame = <<>>
    /\ result = NoResult
    /\ invoke_id = 0
    /\ cache = <<>>
    /\ handlers = 0

\* DubboInvokerProvider._validate_credentials
ValidateCredentials ==
    /\ pc = "provider"
    /\ LET error == ValidateTimeout(call.timeout)
       IN  IF error = ""
           THEN pc' = "tool" /\ UNCHANGED result
           ELSE pc' = "rejected" /\ result' = Raised(error)
    /\ UNCHANGED <<call, request, frame, invoke_id, cache, handlers>>

\* _invoke ends before any facade call: it has yielded `messages`, or raised.
ToolEnd(ended) ==
    /\ result' = ended
    /\ pc' = "finished"
    /\ UNCHANGED <<request, frame, invoke_id, cache, handlers>>

\* The input _invoke misses, "" when it misses none.
MissingInput(p) ==
    CASE p.interface = <<>> -> "Error: Interface name must be provided"
      [] p.method = <<>> -> "Error: Method name must be provided"
      [] p.registry_address = <<>> /\ p.service_uri = <<>> ->
             "Error: Registry address or service URI must be provided"
      [] OTHER -> ""

\* DubboInvokeTool._invoke, to the construction of the Request or to its end
\* before; `provider` is the answer of the registry adapter.
ToolInvoke ==
    /\ pc = "tool"
    /\ \E p \in ToolParameters, provider \in ProviderOutcomes :
         LET timeout == IF call.runtime
                        THEN IntOf(Get(call.timeout, PyStr(<<"6", "0", "0", "0", "0">>)))
                        ELSE [err |-> "", n |-> 60000]
             processed == ProcessTypedParameters(p.parameter_types, p.parameter_values)
             parsed == ParseRegistryAddress(p.registry_address)
             read == timeout.err = ""
             complete == read /\ MissingInput(p) = ""
             facade == CASE ~(complete /\ processed.err = "") -> "none"
                         [] p.service_uri # <<>> -> "invoke_service"
                         [] OTHER -> "invoke_with_registry"
         IN  /\ call' = [op |-> "tool", runtime |-> call.runtime,
                         timeout |-> call.timeout, tool_parameters |-> p,
                         processed |-> complete, facade |-> facade,
                         passed |-> IF facade = "none" THEN <<>> ELSE <<timeout.n>>,
                         resolved |-> IF facade = "invoke_with_registry"
                                      THEN Resolved(p.registry_address, provider)
                                      ELSE <<>>]
             /\ CASE ~read -> ToolEnd(Raised(timeout.err))
                  [] read /\ ~complete ->
                         ToolEnd(Yielded(<<TextMessage(MissingInput(p))>>))
                  [] complete /\ processed.err # "" ->
                         ToolEnd(Yielded(<<TextMessage(
                             "Dubbo service invocation exception: " \o processed.err)>>))
                  [] facade = "invoke_service" ->
                         Dispatch(p.service_uri, processed.values, processed.types)
                  [] OTHER ->
                         IF parsed.err # ""
                         THEN /\ EndCall(Raised(parsed.err))
                              /\ UNCHANGED <<cache, handlers>>
                         ELSE IF CreateRegistryError(parsed.type) # ""
                         THEN /\ EndCall(Returned(Failed(
                                      "Failed to get service provider from registry: "
                                          \o CreateRegistryError(parsed.type))))
                              /\ UNCHANGED <<cache, handlers>>
                         ELSE IF provider.err # ""
                         THEN /\ EndCall(Returned(Failed(
                                      "Failed to get service provider from registry: "
                                          \o provider.err)))
                              /\ UNCHANGED <<cache, handlers>>
                         ELSE Dispatch(provider.uri, processed.values, processed.types)

\* _invoke after the facade call: the message of its result, or of the
\* exception it raised.
ToolYield ==
    /\ pc = "done"
    /\ call.op = "tool"
    /\ pc' = "finished"
    /\ result' =
           IF result.kind = "raised"
           THEN Yielded(<<TextMessage("Dubbo service invocation exception: "
                                          \o result.exception)>>)
           ELSE IF result.record.success
           THEN Yielded(<<JsonMessage(result.record)>>)
           ELSE Yielded(<<TextMessage("Dubbo service invocation failed: "
                                          \o result.record.message)>>)
    /\ UNCHANGED <<call, request, frame, invoke_id, cache, handlers>>

NextTool ==
    \/ ValidateCredentials
    \/ ToolInvoke
    \/ RequestEncode
    \/ Transport
    \/ ToolYield

SpecTool == InitTool /\ [][NextTool]_vars

(***************************************************************************)
(* Reading a frame back, as the Hessian-2 grammar has a peer read it: the   *)
(* properties of the bytes are stated on what a reader finds in them.       *)
(* A reader state r holds                                                   *)
(*   ok     whether the bytes read so far are well formed                   *)
(*   next   the position of the next byte                                   *)
(*   defs   the class definitions read so far, [path, fields]               *)
(*   types  the list type tags read so far                                  *)
(*   log    what the bytes give, in their order: the class definitions      *)
(*          ("def"), the object instances ("obj") and the lists ("list"),   *)
(*          each with its name (a path, a list type tag) and its position   *)
(*   val    the value read last, vals the values of the last sequence      *)
(***************************************************************************)
Reader(position) ==
    [ok |-> TRUE, next |-> position, defs |-> <<>>, types |-> <<>>,
     log |-> <<>>, val |-> PyNone, vals |-> <<>>]

Bad(r) == [r EXCEPT !.ok = FALSE]

\* The character of a code point, "?" when the alphabet has none.
Chr(code) ==
    IF \E c \in Alphabet : Ord[c] = code
    THEN CHOOSE c \in Alphabet : Ord[c] = code
    ELSE "?"

\* The byte at position i, -1 past the end.
ByteAt(b, i) == IF 1 <= i /\ i <= Len(b) THEN b[i] ELSE -1

\* The signed value of a byte, and of four bytes from position i.
Signed8(byte) == IF byte >= 128 THEN byte - 256 ELSE byte

Signed32(b, i) ==
    Signed8(b[i]) * 16777216 + b[i + 1] * 65536 + b[i + 2] * 256 + b[i + 3]

\* One UTF-8 character at position i: [ok, code, next].
ReadUtf8(b, i) ==
    LET b1 == ByteAt(b, i)
        b2 == ByteAt(b, i + 1)
        b3 == ByteAt(b, i + 2)
    IN  IF 0 <= b1 /\ b1 < 128 THEN [ok |-> TRUE, code |-> b1, next |-> i + 1]
        ELSE IF b1 \div 32 = 6 /\ b2 \div 64 = 2
        THEN [ok |-> TRUE, code |-> (b1 % 32) * 64 + (b2 % 64), next |-> i + 2]
        ELSE IF b1 \div 16 = 14 /\ b2 \div 64 = 2 /\ b3 \div 64 = 2
        THEN [ok |-> TRUE, code |-> (b1 % 16) * 4096 + (b2 % 64) * 64 + (b3 % 64),
              next |-> i + 3]
        ELSE [ok |-> FALSE, code |-> 0, next |-> i]

RECURSIVE ReadChars(_, _, _)
\* n characters from position i: [ok, s, next].
ReadChars(b, i, n) ==
    IF n = 0 THEN [ok |-> TRUE, s |-> <<>>, next |-> i]
    ELSE LET c == ReadUtf8(b, i)
             rest == ReadChars(b, c.next, n - 1)
         IN  IF ~c.ok THEN [ok |-> FALSE, s |-> <<>>, next |-> i]
             ELSE [rest EXCEPT !.s = <<Chr(c.code)>> \o @]

\* Whether a byte opens a string: a length up to 31, a length up to 1023 in
\* two bytes, or 'S' with a length of two bytes.
IsStringTag(t) == (0 <= t /\ t <= 31) \/ (48 <= t /\ t <= 51) \/ t = 83

\* The length a string's prefix at position i states, and the number of
\* bytes of the prefix: [length, bytes].
ReadStrPrefix(b, i) ==
    LET t == ByteAt(b, i)
    IN  IF t <= 31 THEN [length |-> t, bytes |-> 1]
        ELSE IF t <= 51 THEN [length |-> (t - 48) * 256 + ByteAt(b, i + 1), bytes |-> 2]
        ELSE [length |-> ByteAt(b, i + 1) * 256 + ByteAt(b, i + 2), bytes |-> 3]

\* A string at position i, its length counting characters: [ok, s, next].
ReadStr(b, i) ==
    IF ~IsStringTag(ByteAt(b, i)) THEN [ok |-> FALSE, s |-> <<>>, next |-> i]
    ELSE ReadChars(b, i + ReadStrPrefix(b, i).bytes, ReadStrPrefix(b, i).length)

RECURSIVE ReadStrs(_, _, _)
\* n strings from position i: [ok, ss, next].
ReadStrs(b, i, n) ==
    IF n = 0 THEN [ok |-> TRUE, ss |-> <<>>, next |-> i]
    ELSE LET first == ReadStr(b, i)
             rest == ReadStrs(b, first.next, n - 1)
         IN  IF ~first.ok THEN [ok |-> FALSE, ss |-> <<>>, next |-> i]
             ELSE [rest EXCEPT !.ss = <<first.s>> \o @]

\* Whether a byte opens an int or a long.
IsIntTag(t) == (128 <= t /\ t <= 215) \/ t = 73 \/ t = 76

\* An int or a long at position i: [ok, val, next].
ReadInt(b, i) ==
    LET t == ByteAt(b, i)
    IN  IF 128 <= t /\ t <= 191 /\ i <= Len(b)
        THEN [ok |-> TRUE, val |-> PyInt(t - 144), next |-> i + 1]
        ELSE IF 192 <= t /\ t <= 207 /\ i + 1 <= Len(b)
        THEN [ok |-> TRUE, val |-> PyInt((t - 200) * 256 + b[i + 1]), next |-> i + 2]
        ELSE IF 208 <= t /\ t <= 215 /\ i + 2 <= Len(b)
        THEN [ok |-> TRUE,
              val |-> PyInt((t - 212) * 65536 + b[i + 1] * 256 + b[i + 2]),
              next |-> i + 3]
        ELSE IF t = 73 /\ i + 4 <= Len(b)
        THEN [ok |-> TRUE, val |-> PyInt(Signed32(b, i + 1)), next |-> i + 5]
        ELSE IF t = 76 /\ i + 8 <= Len(b)
        THEN [ok |-> TRUE,
              val |-> PyBig(IF Signed32(b, i + 5) < 0 THEN Signed32(b, i + 1) + 1
                            ELSE Signed32(b, i + 1),
                            Signed32(b, i + 5)),
              next |-> i + 9]
        ELSE [ok |-> FALSE, val |-> PyNone, next |-> i]

\* A double at position i, in its compact forms: [ok, val, next].
ReadDouble(b, i) ==
    LET t == ByteAt(b, i)
    IN  IF t = 91 THEN [ok |-> TRUE, val |-> PyFloat(0), next |-> i + 1]
        ELSE IF t = 92 THEN [ok |-> TRUE, val |-> PyFloat(1), next |-> i + 1]
        ELSE IF t = 93 /\ i + 1 <= Len(b)
        THEN [ok |-> TRUE, val |-> PyFloat(Signed8(b[i + 1])), next |-> i + 2]
        ELSE IF t = 94 /\ i + 2 <= Len(b)
        THEN [ok |-> TRUE, val |-> PyFloat(Signed8(b[i + 1]) * 256 + b[i + 2]),
              next |-> i + 3]
        ELSE [ok |-> FALSE, val |-> PyNone, next |-> i]

\* The type of a list at position i: a string the first time (it joins the
\* table), the index of a type read before afterwards: [ok, tag, types, next].
ReadType(b, i, types) ==
    IF IsStringTag(ByteAt(b, i))
    THEN [ok |-> ReadStr(b, i).ok, tag |-> ReadStr(b, i).s,
          types |-> Append(types, ReadStr(b, i).s), next |-> ReadStr(b, i).next]
    ELSE LET index == ReadInt(b, i)
         IN  IF index.ok /\ index.val.w = 0
                    /\ 0 <= index.val.v /\ index.val.v < Len(types)
             THEN [ok |-> TRUE, tag |-> types[index.val.v + 1], types |-> types,
                   next |-> index.next]
             ELSE [ok |-> FALSE, tag |-> <<>>, types |-> types, next |-> i]

\* The length of a list whose type ended before position i: in the tag t for
\* the short form, an int for 'V': [ok, n, next].
ReadLength(b, t, i) ==
    IF t # 86 THEN [ok |-> TRUE, n |-> t - 112, next |-> i]
    ELSE LET length == ReadInt(b, i)
         IN  [ok |-> length.ok /\ length.val.w = 0 /\ length.val.v >= 0,
              n |-> IF length.ok THEN length.val.v ELSE 0,
              next |-> length.next]

\* The index of the class an object instance names at position i: in the tag
\* for the short form, an int for 'O': [ok, n, next].
ReadClassId(b, i) ==
    IF ByteAt(b, i) # 79 THEN [ok |-> TRUE, n |-> ByteAt(b, i) - 96, next |-> i + 1]
    ELSE LET id == ReadInt(b, i + 1)
         IN  [ok |-> id.ok /\ id.val.w = 0, n |-> IF id.ok THEN id.val.v ELSE 0,
              next |-> id.next]

\* A class definition at position i, after its 'C': [ok, path, fields, next].
ReadClassDefinition(b, i) ==
    LET path == ReadStr(b, i)
        count == ReadInt(b, path.next)
        ok == path.ok /\ count.ok /\ count.val.w = 0 /\ count.val.v >= 0
        names == IF ok THEN ReadStrs(b, count.next, count.val.v)
                 ELSE [ok |-> FALSE, ss |-> <<>>, next |-> i]
    IN  [ok |-> names.ok, path |-> path.s, fields |-> names.ss, next |-> names.next]

RECURSIVE ReadValue(_, _)
RECURSIVE ReadValues(_, _, _)

\* One value at r.next.  A class definition is no value of its own: the
\* object instance it introduces follows it.
ReadValue(b, r) ==
    LET i == r.next
        t == ByteAt(b, i)
    IN  IF ~r.ok THEN r
        ELSE IF t = 78 THEN [r EXCEPT !.next = i + 1, !.val = PyNone]
        ELSE IF t = 84 THEN [r EXCEPT !.next = i + 1, !.val = PyBool(TRUE)]
        ELSE IF t = 70 THEN [r EXCEPT !.next = i + 1, !.val = PyBool(FALSE)]
        ELSE IF IsIntTag(t)
        THEN [r EXCEPT !.ok = ReadInt(b, i).ok, !.next = ReadInt(b, i).next,
                       !.val = ReadInt(b, i).val]
        ELSE IF 91 <= t /\ t <= 94
        THEN [r EXCEPT !.ok = ReadDouble(b, i).ok, !.next = ReadDouble(b, i).next,
                       !.val = ReadDouble(b, i).val]
        ELSE IF IsStringTag(t)
        THEN [r EXCEPT !.ok = ReadStr(b, i).ok, !.next = ReadStr(b, i).next,
                       !.val = PyStr(ReadStr(b, i).s)]
        ELSE IF (112 <= t /\ t <= 119) \/ t = 86
        THEN LET type == ReadType(b, i + 1, r.types)
                 length == ReadLength(b, t, type.next)
                 items == ReadValues(b, [r EXCEPT
                                            !.ok = type.ok /\ length.ok,
                                            !.next = length.next,
                                            !.types = type.types,
                                            !.log = Append(@, [e |-> "list",
                                                               name |-> type.tag,
                                                               at |-> i])],
                                     length.n)
             IN  [items EXCEPT !.val = PyList(items.vals)]
        ELSE IF t = 67
        THEN LET class == ReadClassDefinition(b, i + 1)
                 defined == [r EXCEPT
                                !.ok = class.ok,
                                !.next = class.next,
                                !.defs = Append(@, [path |-> class.path,
                                                    fields |-> class.fields]),
                                !.log = Append(@, [e |-> "def", name |-> class.path,
                                                   at |-> i])]
             IN  IF ByteAt(b, class.next) = 79
                        \/ (96 <= ByteAt(b, class.next) /\ ByteAt(b, class.next) <= 111)
                 THEN ReadValue(b, defined)
                 ELSE Bad(defined)
        ELSE IF (96 <= t /\ t <= 111) \/ t = 79
        THEN LET id == ReadClassId(b, i)
             IN  IF ~id.ok \/ id.n < 0 \/ id.n >= Len(r.defs) THEN Bad(r)
                 ELSE LET class == r.defs[id.n + 1]
                          fields ==
                              ReadValues(b, [r EXCEPT
                                                !.next = id.next,
                                                !.log = Append(@, [e |-> "obj",
                                                                   name |-> class.path,
                                                                   at |-> i])],
                                         Len(class.fields))
                      IN  [fields EXCEPT
                              !.val = Object(class.path,
                                             IF fields.ok
                                             THEN [j \in 1..Len(class.fields) |->
                                                      [k |-> class.fields[j],
                                                       v |-> fields.vals[j]]]
                                             ELSE <<>>)]
        ELSE Bad(r)

\* n values from r.next, in r.vals.
ReadValues(b, r, n) ==
    IF n = 0 \/ ~r.ok THEN [r EXCEPT !.vals = <<>>]
    ELSE LET first == ReadValue(b, r)
             rest == ReadValues(b, first, n - 1)
         IN  [rest EXCEPT !.vals = IF rest.ok THEN <<first.val>> \o @ ELSE <<>>]

RECURSIVE ReadArguments(_, _)
\* The values from r.next up to the 'H' that opens the attachments.
ReadArguments(b, r) ==
    IF ~r.ok \/ ByteAt(b, r.next) = 72 THEN [r EXCEPT !.vals = <<>>]
    ELSE LET first == ReadValue(b, r)
             rest == ReadArguments(b, first)
         IN  [rest EXCEPT !.vals = IF rest.ok THEN <<first.val>> \o @ ELSE <<>>]

RECURSIVE ReadAttachments(_, _)
\* The keys and values from position i up to 'Z': [ok, entries, next].
ReadAttachments(b, i) ==
    IF ByteAt(b, i) = 90 THEN [ok |-> TRUE, entries |-> <<>>, next |-> i + 1]
    ELSE LET pair == ReadStrs(b, i, 2)
             rest == ReadAttachments(b, pair.next)
         IN  IF ~pair.ok THEN [ok |-> FALSE, entries |-> <<>>, next |-> i]
             ELSE [rest EXCEPT
                      !.entries = <<[k |-> pair.ss[1], v |-> pair.ss[2]]>> \o @]

\* The length the frame's header states for its body.
StatedLength(b) == Signed32(b, 13)

\* What a reader finds in a frame: the five strings that open the body, the
\* argument values, the attachments; ok when the frame is the header and a
\* body of the stated length made of exactly these.
ReadFrame(b) ==
    LET head == ReadStrs(b, 17, 5)
        args == ReadArguments(b, [Reader(head.next) EXCEPT !.ok = head.ok])
        attachments == IF args.ok THEN ReadAttachments(b, args.next + 1)
                       ELSE [ok |-> FALSE, entries |-> <<>>, next |-> 0]
    IN  [ok |-> /\ Len(b) >= 16
                /\ StatedLength(b) = Len(b) - 16
                /\ attachments.ok
                /\ attachments.next = Len(b) + 1,
         strings |-> head.ss,
         arguments_at |-> head.next,
         arguments |-> args.vals,
         log |-> args.log,
         defs |-> args.defs,
         types |-> args.types,
         attachments |-> attachments.entries]

(***************************************************************************)
(* The properties                                                          *)
(***************************************************************************)
\* A facade call with exactly one declared type has constructed its Request.
OneDeclaredType ==
    /\ pc \in {"created", "encoded"}
    /\ call.op # "none"
    /\ call.param_types.some
    /\ Len(call.param_types.v) = 1

\* A facade call with one declared type, List-like, and a sequence for params
\* has constructed its Request.
ListAgainstListType ==
    /\ OneDeclaredType
    /\ IsListType(call.param_types.v[1])
    /\ call.params.t = "list"

RECURSIVE FragmentCount(_, _)
\* The number of fragments of the descriptor d from position i on: a
\* fragment is any number of '[', then a primitive letter or L...; ; -1 when
\* d is no sequence of fragments.
FragmentCount(d, i) ==
    IF i > Len(d) THEN 0
    ELSE IF d[i] = "["
    THEN IF i = Len(d) \/ (d[i + 1] # "[" /\ FragmentCount(d, i + 1) = -1) THEN -1
         ELSE IF d[i + 1] = "[" THEN FragmentCount(d, i + 1)
         ELSE FragmentCount(d, i + 1)
    ELSE IF d[i] = "L"
    THEN LET close == Find(SubSeq(d, i, Len(d)), <<";">>)
         IN  IF close = 0 \/ FragmentCount(d, i + close) = -1 THEN -1
             ELSE 1 + FragmentCount(d, i + close)
    ELSE IF d[i] \in {"Z", "B", "C", "S", "I", "J", "F", "D", "V"}
    THEN IF FragmentCount(d, i + 1) = -1 THEN -1 ELSE 1 + FragmentCount(d, i + 1)
    ELSE -1

\* C1: when exactly one declared type is supplied, the request carries
\* exactly one argument value and a descriptor of one fragment, whatever the
\* shape of params (a sequence of k elements included), never k arguments.
C1_OneTypeOneArgument ==
    /\ OneDeclaredType => Len(request.body.arguments) = 1
    /\ (OneDeclaredType /\ pc = "encoded") =>
           /\ ReadFrame(frame).ok
           /\ Len(ReadFrame(frame).arguments) = 1
           /\ FragmentCount(ReadFrame(frame).strings[5], 1) = 1

\* C2: a sequence coerced against a List-like declared type becomes a named
\* object of path java.util.ArrayList with elementData, of the length of the
\* sequence, and size, that length; the frame then holds no class definition
\* with the fields elementData and size.
C2_ListLikeIsArrayList ==
    /\ ListAgainstListType =>
           /\ Len(request.body.arguments) = 1
           /\ request.body.arguments[1].t = "obj"
           /\ request.body.arguments[1].path = JavaUtil(W_ArrayList)
           /\ Keys(request.body.arguments[1]) = <<W_elementData, W_size>>
           /\ GetItem(request.body.arguments[1], W_elementData).t = "list"
           /\ Len(GetItem(request.body.arguments[1], W_elementData).v)
                  = Len(call.params.v)
           /\ GetItem(request.body.arguments[1], W_size) = PyInt(Len(call.params.v))
    /\ (ListAgainstListType /\ pc = "encoded") =>
           /\ ReadFrame(frame).ok
           /\ \A i \in 1..Len(ReadFrame(frame).defs) :
                  ReadFrame(frame).defs[i].fields # <<W_elementData, W_size>>

\* C3: when a sequence is coerced against a List-like declared type, every
\* mapping among its elements is wrapped as a named object, of the generic
\* element type when the declared type has one and of java.lang.Object when
\* it has none.
C3_MappingElementsWrapped ==
    ListAgainstListType =>
        /\ Len(request.body.arguments) = 1
        /\ request.body.arguments[1].t = "obj"
        /\ HasKey(request.body.arguments[1], W_elementData)
        /\ LET data == GetItem(request.body.arguments[1], W_elementData).v
               type == call.param_types.v[1]
           IN  /\ Len(data) = Len(call.params.v)
               /\ \A i \in 1..Len(data) :
                      call.params.v[i].t = "dict" =>
                          /\ data[i].t = "obj"
                          /\ data[i].path =
                                 IF Contains(type, <<"<">>)
                                 THEN Strip(SubSeq(type, Find(type, <<"<">>) + 1,
                                                   RFind(type, <<">">>) - 1))
                                 ELSE JavaLang(W_Object)

RECURSIVE EmittedObjects(_)
\* The paths of the named objects a value gives, in the order of the
\* encoding: an object, then its field values; the elements of a list; an
\* ArrayList with elementData stands for its elementData.
EmittedObjects(value) ==
    IF value.t = "obj"
    THEN IF value.path = JavaUtil(W_ArrayList) /\ HasKey(value, W_elementData)
         THEN EmittedObjects(GetItem(value, W_elementData))
         ELSE <<value.path>>
                  \o Join([i \in 1..Len(value.v) |-> EmittedObjects(value.v[i].v)], <<>>)
    ELSE IF value.t = "list"
    THEN Join([i \in 1..Len(value.v) |-> EmittedObjects(value.v[i])], <<>>)
    ELSE <<>>

IsClassEvent(event) == event.e \in {"def", "obj"}

\* The class definitions and the object instances a reader finds among the
\* arguments of the frame, in their order.
ClassLog == SelectSeq(ReadFrame(frame).log, IsClassEvent)

\* C4: within one request, every path emitted as a named object has its
\* class definition emitted exactly once, immediately before the first
\* emission of the path, and every later emission is the class-id reference
\* alone followed by the field values.
C4_ClassDefinedOnce ==
    pc = "encoded" =>
        /\ ReadFrame(frame).ok
        /\ LET log == ClassLog
               instances == {j \in 1..Len(log) : log[j].e = "obj"}
               first == {j \in instances :
                            \A k \in instances : log[k].name = log[j].name => j <= k}
           IN  /\ [j \in 1..Cardinality(instances) |->
                      log[CHOOSE i \in instances :
                              Cardinality({k \in instances : k <= i}) = j].name]
                      = EmittedObjects(PyList(request.body.arguments))
               /\ \A i \in 1..Len(log) :
                      log[i].e = "def" =>
                          /\ i + 1 \in first
                          /\ log[i + 1].name = log[i].name
               /\ \A j \in instances :
                      (j > 1 /\ log[j - 1].e = "def") <=> j \in first

\* A frame in which a path is emitted a second time.
C4_PathEmittedAgain ==
    /\ pc = "encoded"
    /\ \E i, j \in 1..Len(ClassLog) :
           /\ i < j
           /\ ClassLog[i].e = "obj"
           /\ ClassLog[j].e = "obj"
           /\ ClassLog[i].name = ClassLog[j].name

\* The paths of the class definitions a reader finds in the frame.
DefinedPaths == [i \in 1..Len(ReadFrame(frame).defs) |-> ReadFrame(frame).defs[i].path]

\* C5 (as amended): the classDefs and listTypes tables of a Request are
\* empty when Request.encode is entered; when it has returned the frame they
\* hold the paths of the class definitions and the list type tags the frame
\* carries, in the frame's order.
C5_TablesFreshThenFilled ==
    /\ pc = "created" => request.classes = <<>> /\ request.types = <<>>
    /\ pc = "encoded" =>
           /\ ReadFrame(frame).ok
           /\ request.classes = DefinedPaths
           /\ request.types = ReadFrame(frame).types

\* A Request has returned a frame with a class definition and a typed list.
C5_TablesFilledAtExit ==
    /\ pc = "encoded"
    /\ request.classes # <<>>
    /\ request.types # <<>>

\* C5 (as claimed): the tables are empty when Request.encode is entered and
\* empty again when it returns.
C5_TablesEmptyAtExit ==
    pc \in {"created", "encoded"} => request.classes = <<>> /\ request.types = <<>>

\* C6: every error that arises during a facade call is returned to the
\* caller as a result record with success = false, result = null and a
\* non-empty message; no exception escapes the facade.
C6_ErrorsAreRecords ==
    pc = "done" =>
        /\ result.kind = "returned"
        /\ ~result.record.success =>
               /\ result.record.result = "None"
               /\ result.record.message # ""

\* The first argument of the request is a string, and the frame is made.
StringArgumentEncoded ==
    /\ pc = "encoded"
    /\ request.body.arguments # <<>>
    /\ request.body.arguments[1].t = "str"

\* The number of bytes of the UTF-8 encoding of a text.
RECURSIVE Utf8Length(_)
Utf8Length(s) ==
    IF s = <<>> THEN 0
    ELSE (IF Ord[Head(s)] < 128 THEN 1 ELSE IF Ord[Head(s)] < 2048 THEN 2 ELSE 3)
             + Utf8Length(Tail(s))

\* The prefix of a string whose stated length is n: one byte up to 0x1f,
\* two bytes [0x30 + (n >> 8), n & 0xff] up to 0x3ff.
PrefixOfLength(b, i, n) ==
    IF n <= 31 THEN b[i] = n
    ELSE n <= 1023 /\ b[i] = 48 + n \div 256 /\ b[i + 1] = n % 256

RECURSIVE FieldValues(_)
\* A value with the names of its objects' fields left out: the names are the
\* matter of the class definition, the values are written object by object.
FieldValues(value) ==
    IF value.t = "list"
    THEN PyList([i \in 1..Len(value.v) |-> FieldValues(value.v[i])])
    ELSE IF value.t = "obj"
    THEN [t |-> "obj", path |-> value.path,
          v |-> [i \in 1..Len(value.v) |-> FieldValues(value.v[i].v)]]
    ELSE value

RECURSIVE OnTheWire(_)
\* The value a reader is to find for an argument value: an empty list is
\* null, an ArrayList with elementData is its elementData, a named object
\* the values of its fields in order.
OnTheWire(value) ==
    IF value.t = "list"
    THEN IF value.v = <<>> THEN PyNone
         ELSE PyList([i \in 1..Len(value.v) |-> OnTheWire(value.v[i])])
    ELSE IF value.t = "obj"
    THEN IF value.path = JavaUtil(W_ArrayList) /\ HasKey(value, W_elementData)
         THEN OnTheWire(GetItem(value, W_elementData))
         ELSE [t |-> "obj", path |-> value.path,
               v |-> [i \in 1..Len(value.v) |-> OnTheWire(value.v[i].v)]]
    ELSE value

\* C8: the body is, in this order, the dubbo version, the service path, the
\* service version, the method name, the descriptor, each argument value in
\* argument order, 'H', the attachments path and interface (the service
\* path) and version (the service version), 'Z'; a call with no types and
\* no values has the empty descriptor and no argument value.
C8_BodyLayout ==
    pc = "encoded" =>
        /\ ReadFrame(frame).ok
        /\ SubSeq(ReadFrame(frame).strings, 1, 4)
               = <<request.body.dubbo_version, request.body.path,
                   request.body.version, request.body.method>>
        /\ [i \in 1..Len(ReadFrame(frame).arguments) |->
                  FieldValues(ReadFrame(frame).arguments[i])]
               = [i \in 1..Len(request.body.arguments) |->
                     OnTheWire(request.body.arguments[i])]
        /\ ReadFrame(frame).attachments
               = << [k |-> W_path, v |-> request.body.path],
                    [k |-> W_interface, v |-> request.body.path],
                    [k |-> W_version, v |-> request.body.version] >>
        /\ (call.params.t = "null" /\ ~call.param_types.some) =>
               /\ ReadFrame(frame).strings[5] = <<>>
               /\ ReadFrame(frame).arguments = <<>>

\* The frame of a call with no types and no values.
C8_ZeroArgumentFrame ==
    /\ pc = "encoded"
    /\ call.params.t = "null"
    /\ ~call.param_types.some

\* The letter of a primitive name, "" for any other text.
PrimitiveLetter(type) ==
    CASE type = W_boolean -> "Z" [] type = W_byte -> "B" [] type = W_char -> "C"
      [] type = W_short -> "S" [] type = W_int -> "I" [] type = W_long -> "J"
      [] type = W_float -> "F" [] type = W_double -> "D" [] type = W_void -> "V"
      [] OTHER -> ""

\* The text before the first "<" of a type.
RECURSIVE Erased(_)
Erased(type) ==
    IF type = <<>> \/ Head(type) = "<" THEN <<>>
    ELSE <<Head(type)>> \o Erased(Tail(type))

RECURSIVE CanonicalForm(_)
\* The canonical form of a declared type.
CanonicalForm(type) ==
    IF type # <<>> /\ (type[1] = "[" \/ (type[1] = "L" /\ type[Len(type)] = ";"))
    THEN type
    ELSE IF PrimitiveLetter(type) # "" THEN <<PrimitiveLetter(type)>>
    ELSE IF Len(type) >= 2 /\ type[Len(type) - 1] = "[" /\ type[Len(type)] = "]"
    THEN <<"[">> \o CanonicalForm(SubSeq(type, 1, Len(type) - 2))
    ELSE <<"L">>
             \o [i \in 1..Len(Erased(type)) |->
                    IF Erased(type)[i] = "." THEN "/" ELSE Erased(type)[i]]
             \o <<";">>

RECURSIVE CanonicalForms(_)
CanonicalForms(types) ==
    IF types = <<>> THEN <<>>
    ELSE CanonicalForm(Head(types)) \o CanonicalForms(Tail(types))

\* C9: when declared types are present, the descriptor of the frame is the
\* concatenation, in order and without separator, of the canonical form of
\* each declared type, whatever the argument values are.
C9_DescriptorOfDeclaredTypes ==
    (pc = "encoded" /\ Truthy(call.param_types)) =>
        ReadFrame(frame).strings[5] = CanonicalForms(call.param_types.v)

\* The frame of a call that declares a generic list type.
C9_GenericTypeEncoded ==
    /\ pc = "encoded"
    /\ call.param_types = Types(<<Generic(JavaUtil(W_List), ComXFoo)>>)
    /\ call.params = PyList(<<DictFoo, DictNested>>)

RECURSIVE Fragment(_, _)
\* The fragment inferred for a value, an integer giving I from `least` up to
\* 2^31 - 1: [fail, s], fail being "" or the error.
Fragment(value, least) ==
    CASE value.t = "bool" -> [fail |-> "", s |-> <<"Z">>]
      [] value.t = "int" ->
            [fail |-> "",
             s |-> IF value.w = 0 /\ least <= value.v THEN <<"I">> ELSE <<"J">>]
      [] value.t = "float" -> [fail |-> "", s |-> <<"D">>]
      [] value.t = "str" ->
            [fail |-> "", s |-> <<"L">> \o W_java \o <<"/">> \o W_lang \o <<"/">>
                                    \o W_String \o <<";">>]
      [] value.t = "obj" ->
            [fail |-> "",
             s |-> <<"L">> \o [i \in 1..Len(value.path) |->
                                  IF value.path[i] = "." THEN "/" ELSE value.path[i]]
                       \o <<";">>]
      [] value.t = "list" ->
            IF value.v = <<>>
            THEN [fail |-> "HessianTypeError: Method parameter is a list but length is zero",
                  s |-> <<>>]
            ELSE IF Fragment(value.v[1], least).fail # ""
            THEN Fragment(value.v[1], least)
            ELSE [fail |-> "", s |-> <<"[">> \o Fragment(value.v[1], least).s]
      [] OTHER -> [fail |-> "HessianTypeError: Unknown argument type", s |-> <<>>]

RECURSIVE Fragments(_, _)
\* One fragment per argument, or the first error.
Fragments(arguments, least) ==
    IF arguments = <<>> THEN [fail |-> "", s |-> <<>>]
    ELSE IF Fragment(Head(arguments), least).fail # ""
    THEN Fragment(Head(arguments), least)
    ELSE IF Fragments(Tail(arguments), least).fail # ""
    THEN Fragments(Tail(arguments), least)
    ELSE [fail |-> "",
          s |-> Fragment(Head(arguments), least).s
                    \o Fragments(Tail(arguments), least).s]

\* The descriptor of the frame, or the failure of the call, is that of the
\* fragments inferred with I from `least` up.
InferredFrom(least) ==
    (pc \in {"encoded", "done"} /\ ~Truthy(request.body.parameter_types)) =>
        IF Fragments(request.body.arguments, least).fail = ""
        THEN pc = "encoded" =>
                 ReadFrame(frame).strings[5]
                     = Fragments(request.body.arguments, least).s
        ELSE /\ pc = "done"
             /\ result = Returned(Failed(
                    "Invocation exception: "
                        \o Fragments(request.body.arguments, least).fail))

\* C10 (as amended): without declared types the descriptor is one inferred
\* fragment per argument: Z for a boolean, I for an integer from -2^31 to
\* 2^31 - 1 and J for any other, D for a float, Ljava/lang/String; for a
\* string, L + path with slashes + ; for a named object, '[' and the
\* fragment of the first element for a non-empty list; an empty list fails
\* with the empty-list error and any other shape with the unsupported-type
\* error.
C10_InferredDescriptor == InferredFrom(MIN_INT_32)

\* The frame of an untyped call of -2^31 and a named object.
C10_LeastIntEncoded ==
    /\ pc = "encoded"
    /\ ~Truthy(request.body.parameter_types)
    /\ request.body.arguments = <<PyInt(MIN_INT_32), ObjectNested>>

\* C10 (as claimed): the same, an integer giving I when its magnitude is at
\* most 2^31 - 1 and J otherwise.
C10_InferredByMagnitude == InferredFrom(-MAX_INT_32)

\* The angle-bracket nesting depth at position i of a text: the '<' before
\* it less the '>' before it.
Depth(s, i) ==
    Cardinality({j \in 1..(i - 1) : s[j] = "<"})
        - Cardinality({j \in 1..(i - 1) : s[j] = ">"})

\* The positions of the commas at depth zero, with the two ends of the text.
Cuts(s) == {0, Len(s) + 1} \cup {i \in 1..Len(s) : s[i] = "," /\ Depth(s, i) = 0}

\* The whitespace-trimmed text between the cut at c and the next one.
SegmentAfter(s, c) ==
    Strip(SubSeq(s, c + 1,
                 (CHOOSE d \in Cuts(s) :
                     d > c /\ \A e \in Cuts(s) : e > c => d <= e) - 1))

\* The cuts that open a non-blank segment.
OpeningCuts(s) == {c \in Cuts(s) : c <= Len(s) /\ SegmentAfter(s, c) # <<>>}

SeveralDeclaredTypes ==
    /\ pc # "idle"
    /\ call.op = "invoke_service"
    /\ call.param_types.some
    /\ Len(call.param_types.v) >= 2

\* params is a sequence of exactly as many elements as there are types.
CountsAgree ==
    /\ call.params.t = "list"
    /\ Len(call.params.v) = Len(call.param_types.v)

\* C12: with N >= 2 declared types the call proceeds only if params is a
\* sequence of exactly N elements; element i is then coerced against type i
\* and the frame carries the N coerced arguments in that order.  Otherwise
\* the call fails with the error of the mismatch, and no request and no
\* frame is made.
C12_PositionWiseOrRefused ==
    SeveralDeclaredTypes =>
        IF CountsAgree
        THEN /\ pc \in {"created", "encoded"} =>
                    request.body.arguments
                        = [i \in 1..Len(call.params.v) |->
                              ConvertSingleParam(call.params.v[i],
                                                 call.param_types.v[i])]
             /\ pc = "encoded" =>
                    /\ ReadFrame(frame).ok
                    /\ [i \in 1..Len(ReadFrame(frame).arguments) |->
                           FieldValues(ReadFrame(frame).arguments[i])]
                           = [i \in 1..Len(call.params.v) |->
                                 OnTheWire(ConvertSingleParam(call.params.v[i],
                                                              call.param_types.v[i]))]
        ELSE /\ pc = "done"
             /\ request = NoRequest
             /\ frame = <<>>
             /\ result \in
                    {Returned(Failed("Invocation exception: ValueError: For multi-parameter invocation, params must be list or tuple type")),
                     Returned(Failed("Invocation exception: ValueError: Number of parameters does not match number of parameter types"))}
             /\ (call.params.t = "list") =>
                    result = Returned(Failed("Invocation exception: ValueError: Number of parameters does not match number of parameter types"))

\* The frame of a call of two declared types, the first argument coerced to
\* a named object.
C12_TwoArgumentsFramed ==
    /\ pc = "encoded"
    /\ call.op = "invoke_service"
    /\ call.param_types = Types(<<ComXFoo, JavaUtil(W_LinkedList)>>)
    /\ call.params = PyList(<<DictFoo, PyInt(25)>>)
    /\ Len(ReadFrame(frame).arguments) = 2

RECURSIVE WrappedAs(_, _)
\* The named object of a mapping: the path, the entries as fields in the
\* order of the mapping, every mapping below it, at any depth and within
\* lists, a java.lang.Object.
WrappedAs(value, path) ==
    IF value.t = "dict"
    THEN [t |-> "obj", path |-> path,
          v |-> [i \in 1..Len(value.v) |->
                    [k |-> value.v[i].k,
                     v |-> WrappedAs(value.v[i].v, JavaLang(W_Object))]]]
    ELSE IF value.t = "list"
    THEN [t |-> "list",
          v |-> [i \in 1..Len(value.v) |-> WrappedAs(value.v[i], JavaLang(W_Object))]]
    ELSE value

\* An array type: T[] or a descriptor beginning with '['.
ArrayType(type) ==
    \/ type # <<>> /\ type[1] = "["
    \/ Len(type) >= 2 /\ type[Len(type) - 1] = "[" /\ type[Len(type)] = "]"

\* A reference class that is no Map, no List or Collection, no primitive or
\* boxed type, and no array.
ObjectLike(type) ==
    /\ Erased(type) \notin MAP_TYPES \cup LIST_TYPES \cup COLLECTION_TYPES \cup BASIC_TYPES
    /\ ~ArrayType(type)

\* A facade call with one declared type and a mapping for params has
\* constructed its Request.
MappingAgainstType ==
    /\ OneDeclaredType
    /\ call.params.t = "dict"

\* C13: a mapping argument is wrapped into a named object of the declared
\* class without its generics, exactly when the declared type is Map-like or
\* an Object-like reference class; against every other declared type, array
\* types written T[] or as a '[' descriptor among them, it is passed through
\* unchanged.
C13_MappingWrappedOrPassed ==
    MappingAgainstType =>
        /\ Len(request.body.arguments) = 1
        /\ request.body.arguments[1] =
               IF \/ Erased(call.param_types.v[1]) \in MAP_TYPES
                  \/ ObjectLike(call.param_types.v[1])
               THEN WrappedAs(call.params, Erased(call.param_types.v[1]))
               ELSE call.params

\* C13 but for the array types T[] and the List-like types that are no
\* Collection of the handler's table: what the handler does.
C13_WrappedButArrays ==
    MappingAgainstType =>
        /\ Len(request.body.arguments) = 1
        /\ request.body.arguments[1] =
               IF \/ Erased(call.param_types.v[1]) \in MAP_TYPES
                  \/ /\ Erased(call.param_types.v[1]) \notin BASIC_TYPES \cup COLLECTION_TYPES
                     /\ call.param_types.v[1][1] # "["
               THEN WrappedAs(call.params, Erased(call.param_types.v[1]))
               ELSE call.params

\* The bytes of the 32-bit integer v in the form of its range.
IntForm(v) ==
    IF -16 <= v /\ v <= 47 THEN <<v + 144>>
    ELSE IF -2048 <= v /\ v <= 2047
    THEN <<(200 + (v \div 256)) % 256, v % 256>>
    ELSE IF -262144 <= v /\ v <= 262143
    THEN <<(212 + (v \div 65536)) % 256, (v \div 256) % 256, v % 256>>
    ELSE <<73, (v \div 16777216) % 256, (v \div 65536) % 256,
           (v \div 256) % 256, v % 256>>

\* The frame of a request whose one argument is a 32-bit integer.
IntegerFramed ==
    /\ pc = "encoded"
    /\ Len(request.body.arguments) = 1
    /\ request.body.arguments[1].t = "int"
    /\ request.body.arguments[1].w = 0

\* C14: a 32-bit integer v is written as one byte v + 0x90 for
\* -0x10..0x2f, else as two bytes 0xc8 + (v >> 8), v & 0xff for
\* -0x800..0x7ff, else as three bytes 0xd4 + (v >> 16), (v >> 8) & 0xff,
\* v & 0xff for -0x40000..0x3ffff, else as 'I' and the four bytes of v, most
\* significant first; every byte of the frame is in 0..255.
C14_IntForms ==
    IntegerFramed =>
        LET at == ReadFrame(frame).arguments_at
            form == IntForm(request.body.arguments[1].v)
        IN  /\ ReadFrame(frame).ok
            /\ at + Len(form) <= Len(frame)
            /\ SubSeq(frame, at, at + Len(form) - 1) = form
            /\ frame[at + Len(form)] = 72
            /\ Len(form) = (CASE form[1] \in 128..191 -> 1
                              [] form[1] \in 192..207 -> 2
                              [] form[1] \in 208..215 -> 3
                              [] OTHER -> 5)
            /\ \A i \in 1..Len(frame) : frame[i] \in 0..255

\* The frame of the request of -0x801, the first value below the two-byte
\* form.
C14_ThreeByteFormEncoded ==
    /\ IntegerFramed
    /\ request.body.arguments[1].v = -2049
    /\ SubSeq(frame, ReadFrame(frame).arguments_at,
              ReadFrame(frame).arguments_at + 2) = <<211, 247, 255>>

\* The native shape of a value.
Shape(value) ==
    CASE value.t = "bool" -> "boolean"
      [] value.t = "int" /\ value.w = 0 -> "32-bit integer"
      [] value.t = "int" /\ value.w # 0 -> "64-bit integer"
      [] value.t = "float" -> "double"
      [] value.t = "str" -> "string"
      [] value.t = "null" -> "null"
      [] value.t = "obj" -> "named object"
      [] OTHER -> "list"

\* The encoding of a request whose one argument is a list has ended.
ListEncodingEnded ==
    /\ pc \in {"encoded", "done"}
    /\ Len(request.body.arguments) = 1
    /\ request.body.arguments[1].t = "list"

\* C15: the encoding of a list fails with the error of the heterogeneous
\* list whenever two of its elements differ in native shape (boolean, 32-bit
\* integer, 64-bit integer, double, string, null, named object, list), so
\* that every list emitted has elements of one shape only.
C15_OneShapePerList ==
    ListEncodingEnded =>
        LET items == request.body.arguments[1].v
            mixed == \E i, j \in 1..Len(items) : Shape(items[i]) # Shape(items[j])
        IN  /\ mixed =>
                /\ pc = "done"
                /\ result = Returned(Failed("Invocation exception: HessianTypeError: All elements in list must be the same type"))
            /\ pc = "encoded" => ~mixed

\* The list of a 32-bit and a 64-bit integer is emitted, under one tag.
C15_MixedIntegersEmitted ==
    /\ pc = "encoded"
    /\ request.body.arguments = <<PyList(<<PyInt(25), PyBig(1, MIN_INT_32)>>)>>
    /\ request.types = <<<<"[">> \o W_int>>

\* The invoke id in bytes 4-11 of a frame (counted from 0), as a number; -1
\* when it does not fit 31 bits.
FrameInvokeId(bytes) ==
    IF SubSeq(bytes, 5, 8) # <<0, 0, 0, 0>> \/ bytes[9] >= 128 THEN -1
    ELSE ((bytes[9] * 256 + bytes[10]) * 256 + bytes[11]) * 256 + bytes[12]

\* C16: of two requests created and framed one after the other, the invoke
\* id in bytes 4-11 of the second frame is strictly greater than that of the
\* first; no two requests share an id, and the id of a request does not
\* change between its creation and its encoding.  The counter invoke_id
\* holds the id of the request created last: every frame carries it, and
\* every creation raises it.
C16_InvokeIdsIncrease ==
    /\ [](frame # <<>> =>
              /\ request.invoke_id = invoke_id
              /\ FrameInvokeId(frame) = invoke_id)
    /\ [][/\ invoke_id' >= invoke_id
          /\ (request' # NoRequest /\ request = NoRequest) =>
                 /\ invoke_id' > invoke_id
                 /\ request'.invoke_id = invoke_id'
          /\ (request' # NoRequest /\ request # NoRequest) =>
                 request'.invoke_id = request.invoke_id]_vars

\* The frame of the second request of the process.
C16_SecondRequestFramed ==
    /\ pc = "encoded"
    /\ invoke_id = 2
    /\ FrameInvokeId(frame) = 2

\* The call in progress was dispatched to a handler.
CallDispatched ==
    /\ call.op \in {"invoke_service", "invoke_with_registry"}
    /\ call.dispatched # <<>>

\* C17: the cache holds at most one handler per scheme; every call of a
\* scheme (dubbo when the URI names none) is dispatched to the handler the
\* cache got at the first use of the scheme, and no second handler is
\* created for a cached scheme.
C17_OneHandlerPerScheme ==
    /\ [](/\ \A i, j \in 1..Len(cache) : cache[i].k = cache[j].k => i = j
          /\ handlers = Len(cache)
          /\ CallDispatched =>
                 \E i \in 1..Len(cache) :
                     /\ cache[i].k =
                            (IF Contains(call.dispatched[1].service_uri, <<":", "/", "/">>)
                             THEN ToLower(SplitFirst(call.dispatched[1].service_uri,
                                                     <<":", "/", "/">>))
                             ELSE W_dubbo)
                     /\ cache[i].v = call.dispatched[1].handler)
    /\ [][/\ Len(cache') >= Len(cache)
          /\ \A i \in 1..Len(cache) : cache'[i] = cache[i]
          /\ Len(cache') > Len(cache) =>
                 \A i \in 1..Len(cache) : cache[i].k # cache'[Len(cache')].k]_vars

\* A second call of the scheme, by a URI that names none, is dispatched to
\* the handler cached by the first.
C17_SecondCallOnCachedHandler ==
    /\ CallDispatched
    /\ invoke_id = 2
    /\ call.dispatched[1].service_uri = <<"h", ":">> \o Port20880
    /\ call.dispatched[1].handler = 1
    /\ cache = <<[k |-> W_dubbo, v |-> 1]>>

\* A call through a registry is in progress or has ended.
RegistryCall == pc # "idle" /\ call.op = "invoke_with_registry"

\* The call has ended without a request and without a frame.
EndedUnsent == pc = "done" /\ request = NoRequest /\ frame = <<>>

\* C18: a call through a registry parses the address, creates the adapter,
\* resolves one provider URI and dispatches exactly once, with exactly that
\* URI; when the parsing, the adapter or the resolution fails there is no
\* dispatch and no transport; after a dispatch there is no retry and no
\* failover: the call makes no second request.
C18_ResolveThenDispatchOnce ==
    /\ [](RegistryCall =>
            /\ Len(call.resolved) <= 1
            /\ Len(call.dispatched) <= 1
            /\ (\/ ParseRegistryAddress(call.registry_address).err # ""
                \/ CreateRegistryError(
                       ParseRegistryAddress(call.registry_address).type) # "") =>
                   /\ call.resolved = <<>>
                   /\ call.dispatched = <<>>
                   /\ EndedUnsent
            /\ (call.resolved # <<>> /\ call.resolved[1].err # "") =>
                   /\ call.dispatched = <<>>
                   /\ EndedUnsent
                   /\ result = Returned(Failed(
                          "Failed to get service provider from registry: "
                              \o call.resolved[1].err))
            /\ (call.resolved # <<>> /\ call.resolved[1].err = "") =>
                   IF call.dispatched = <<>>
                   THEN /\ EndedUnsent
                        /\ result = Returned(Failed(
                               "Service invocation exception: ValueError: Unsupported protocol"))
                   ELSE call.dispatched[1].service_uri = call.resolved[1].uri
            /\ pc \in {"created", "encoded"} =>
                   /\ call.dispatched # <<>>
                   /\ request.invoke_id = invoke_id)
    /\ [][RegistryCall =>
              /\ invoke_id' = invoke_id
              /\ call' \in {call, NoCall}
              /\ pc = "done" => pc' = "idle"]_vars

\* A call through the Nacos registry, dispatched to the provider resolved,
\* has its frame.
C18_ResolvedProviderFramed ==
    /\ RegistryCall
    /\ pc = "encoded"
    /\ call.resolved = <<[err |-> "", uri |-> GoodUri]>>
    /\ call.dispatched = <<[service_uri |-> GoodUri, handler |-> 1]>>

\* The selection has returned or raised.
Selected == pc = "selected" /\ call.op = "select_provider_by_weight"

RECURSIVE Cumulative(_, _)
\* The cumulative weight of record i of the list.
Cumulative(hosts, i) ==
    IF i = 0 THEN 0 ELSE Cumulative(hosts, i - 1) + hosts[i].weight

\* Record i is the first whose cumulative weight exceeds the draw
\* x = random / Grain of the total weight W.
FirstExceeding(hosts, random, i) ==
    LET W == Cumulative(hosts, Len(hosts))
    IN  /\ Cumulative(hosts, i) * Grain > random * W
        /\ \A j \in 1..(i - 1) : Cumulative(hosts, j) * Grain <= random * W

\* C19: of a list that is not empty, with weights that are not negative and
\* a total W > 0, the selection returns for every draw x in [0, W) the first
\* record whose cumulative weight exceeds x; the result is always a record
\* of the list, and never one of weight 0; when all weights are 0 any record
\* of the list is returned; of the empty list the error of no provider is
\* raised.
C19_FirstExceedingDraw ==
    Selected =>
        LET hosts == call.weighted_hosts
        IN  IF hosts = <<>>
            THEN result = Raised("ValueError: No available service provider")
            ELSE /\ result.kind = "returned"
                 /\ \E i \in 1..Len(hosts) : result.record = hosts[i].uri
                 /\ Cumulative(hosts, Len(hosts)) > 0 =>
                        \E i \in 1..Len(hosts) :
                            /\ FirstExceeding(hosts, call.random, i)
                            /\ result.record = hosts[i].uri
                            /\ hosts[i].weight > 0

\* The draw 0 on a list whose first record has weight 0: the second record
\* is returned.
C19_ZeroWeightSkipped ==
    /\ Selected
    /\ Len(call.weighted_hosts) = 3
    /\ call.weighted_hosts[1].weight = 0
    /\ call.weighted_hosts[2].weight = 1
    /\ call.weighted_hosts[3].weight = 2
    /\ call.random = 0
    /\ result = Returned(ProviderUri(2))

RECURSIVE UpToSlash(_)
\* The text before the first "/" of a text.
UpToSlash(text) ==
    IF text = <<>> \/ Head(text) = "/" THEN <<>>
    ELSE <<Head(text)>> \o UpToSlash(Tail(text))

\* The text after the last ":" of a text that has one.
AfterLastColon(text) ==
    LET last == CHOOSE i \in 1..Len(text) :
                    /\ text[i] = ":"
                    /\ \A j \in (i + 1)..Len(text) : text[j] # ":"
    IN  SubSeq(text, last + 1, Len(text))

\* host:port of an endpoint URI: the URI without its dubbo:// and without
\* the path.
HostAndPort(uri) ==
    UpToSlash(IF Len(uri) >= 8 /\ SubSeq(uri, 1, 8) = W_dubbo \o <<":", "/", "/">>
              THEN SubSeq(uri, 9, Len(uri))
              ELSE uri)

\* The text after the last colon of host:port is an integer port of
\* 1..65535.
PortInRange(uri) ==
    /\ \E i \in 1..Len(HostAndPort(uri)) : HostAndPort(uri)[i] = ":"
    /\ LET port == AfterLastColon(HostAndPort(uri))
       IN  /\ port # <<>>
           /\ \A i \in 1..Len(port) : port[i] \in {Digits[d] : d \in 1..10}
           /\ DigitsValue(port) \in 1..65535

\* The failed results of a malformed endpoint.
MalformedEndpoint ==
    {Returned(Failed("Service URI format error"))}
        \cup {Returned(Failed("Service address format error: " \o e)) :
                 e \in {"ValueError: Missing port separator",
                        "ValueError: Port out of valid range",
                        "ValueError: invalid literal for int()"}}

\* C20: the handler accepts an endpoint URI, with or without dubbo:// and
\* whatever path follows host:port, exactly when the text after the last
\* colon is an integer port of 1..65535; otherwise it returns the failed
\* result of a malformed endpoint, and no client is created and no frame
\* sent.
C20_EndpointAcceptedByPort ==
    (pc # "idle" /\ CallDispatched) =>
        IF PortInRange(call.dispatched[1].service_uri)
        THEN result \notin MalformedEndpoint
        ELSE /\ pc = "done"
             /\ result \in MalformedEndpoint
             /\ request = NoRequest
             /\ frame = <<>>

\* The frame of a call on an endpoint URI with a path.
C20_PathIgnored ==
    /\ pc = "encoded"
    /\ CallDispatched
    /\ call.dispatched[1].service_uri = GoodUri \o <<"/">> \o Interface
    /\ frame # <<>>

\* The highest port is accepted.
C20_HighestPortAccepted ==
    /\ pc = "encoded"
    /\ CallDispatched
    /\ DigitsValue(AfterLastColon(call.dispatched[1].service_uri)) = 65535


(***************************************************************************)
(* C21                                                                     *)
(***************************************************************************)
\* The tool has been invoked with an empty interface, an empty method, or
\* neither a registry address nor a service URI.
InputMissing ==
    /\ call.op = "tool"
    /\ \/ call.tool_parameters.interface = <<>>
       \/ call.tool_parameters.method = <<>>
       \/ /\ call.tool_parameters.registry_address = <<>>
          /\ call.tool_parameters.service_uri = <<>>

\* The error of the first missing input, in the order interface, method,
\* endpoint.
FirstMissing ==
    IF call.tool_parameters.interface = <<>>
    THEN "Error: Interface name must be provided"
    ELSE IF call.tool_parameters.method = <<>>
    THEN "Error: Method name must be provided"
    ELSE "Error: Registry address or service URI must be provided"

\* The tool has reported the missing input and done nothing else: no
\* parameter processing, no registry lookup, no call of the facade.
ReportedAndNothingElse ==
    /\ pc = "finished"
    /\ result = Yielded(<<TextMessage(FirstMissing)>>)
    /\ ~call.processed
    /\ call.facade = "none"
    /\ call.resolved = <<>>
    /\ request = NoRequest
    /\ invoke_id = 0
    /\ cache = <<>>

\* C21: when the interface is empty, or the method is empty, or both the
\* registry address and the service URI are empty, the tool reports the
\* error of the first missing input (interface, then method, then endpoint)
\* and performs no parameter processing, no registry lookup and no service
\* invocation.
C21_MissingInputReported == InputMissing => ReportedAndNothingElse

\* The same once the tool has read its timeout: the order of the checks and
\* the absence of any other work hold whenever int() accepts the timeout.
C21_ReportedOnceTimeoutRead ==
    (InputMissing /\ result.kind # "raised") => ReportedAndNothingElse

\* An empty method is reported with the interface given, and an endpoint
\* missing with both given.
C21_MethodReported ==
    /\ InputMissing
    /\ call.tool_parameters.interface # <<>>
    /\ call.tool_parameters.method = <<>>
    /\ ReportedAndNothingElse


(***************************************************************************)
(* C22                                                                     *)
(***************************************************************************)
\* create_registry has returned or raised for the type of the call.
FactoryCalled == pc = "strategy" /\ call.op = "create_registry"

\* C22: create_registry returns a ZookeeperRegistryStrategy for the type
\* 'zookeeper', a NacosRegistryStrategy for the type 'nacos', and raises the
\* ValueError of an unsupported registry for every other type.
C22_StrategyOfType ==
    FactoryCalled =>
        CASE call.registry_type = W_zookeeper ->
                 result = Returned("ZookeeperRegistryStrategy")
          [] call.registry_type = W_nacos ->
                 result = Returned("NacosRegistryStrategy")
          [] OTHER -> result = Raised("ValueError: Registry: unsupported type")

\* For every type but 'zookeeper' the factory does as said.
C22_NacosOrUnsupported ==
    (FactoryCalled /\ call.registry_type # W_zookeeper) =>
        IF call.registry_type = W_nacos
        THEN result = Returned("NacosRegistryStrategy")
        ELSE result = Raised("ValueError: Registry: unsupported type")


(***************************************************************************)
(* C23                                                                     *)
(***************************************************************************)
\* The credentials hold a timeout and the provider has validated them.
TimeoutValidated ==
    /\ call.op = "credentials"
    /\ call.runtime
    /\ call.timeout # Absent
    /\ pc \in {"tool", "rejected"}

\* The text is an integer literal: digits after an optional sign, spaces
\* around them allowed.
IntegerText(text) ==
    LET literal == Strip(text)
        digits == IF literal # <<>> /\ literal[1] \in {"+", "-"} THEN Tail(literal)
                  ELSE literal
    IN  digits # <<>> /\ \A i \in 1..Len(digits) : IsDigit(digits[i])

\* The value is an integer t with 0 < t <= 300000.
IntegerInRange(value) ==
    \/ value.t = "int" /\ value.w = 0 /\ 0 < value.v /\ value.v <= 300000
    \/ /\ value.t = "str"
       /\ IntegerText(value.v)
       /\ Strip(value.v)[1] # "-"
       /\ 0 < DigitsValue(IF Strip(value.v)[1] = "+" THEN Tail(Strip(value.v))
                          ELSE Strip(value.v))
       /\ DigitsValue(IF Strip(value.v)[1] = "+" THEN Tail(Strip(value.v))
                      ELSE Strip(value.v)) <= 300000

\* C23: credential validation accepts a configured timeout exactly when it
\* is an integer t with 0 < t <= 300000 (it rejects t <= 0, t > 300000 and
\* every value that is not an integer), and every timeout the tool passes to
\* the facade satisfies 0 < t <= 300000.
C23_TimeoutInRange ==
    /\ TimeoutValidated => (pc = "tool" <=> IntegerInRange(call.timeout))
    /\ (call.op = "tool" /\ call.passed # <<>>) =>
           (0 < call.passed[1] /\ call.passed[1] <= 300000)

\* For the timeouts that are not empty (bool(timeout) is true) validation
\* does as said.
C23_NonEmptyTimeoutInRange ==
    (TimeoutValidated /\ PyTruthy(call.timeout)) =>
        (pc = "tool" <=> IntegerInRange(call.timeout))

\* The tool passes the timeout 0 to the facade.
C23_ZeroPassed == call.op = "tool" /\ call.passed = <<0>>


(***************************************************************************)
(* C24                                                                     *)
(***************************************************************************)
\* The frame of the request of thread i, encoded with no other request
\* about.
EncodedAlone(i) ==
    Encode(RequestInit(request[i].body, request[i].invoke_id)).out

\* C24: under any interleaving of the encoding of two requests, the frame of
\* each request is readable on its own (every class id it references has
\* its definition and every list type index its literal tag in that frame)
\* and its bytes are those of the request encoded alone.
C24_TablesNotShared ==
    \A i \in {1, 2} :
        pc[i] = "encoded" =>
            /\ ReadFrame(frame[i]).ok
            /\ frame[i] = EncodedAlone(i)

\* The second request is encoded while the first, with the same arguments,
\* is between its two arguments; both have defined the class com.x.Foo, and
\* the second the list type [object.
C24_EncodedWhileOtherInProgress ==
    /\ pc = <<"created", "encoded">>
    /\ \A i \in {1, 2} :
          /\ request[i].body.arguments = <<ObjectFoo, PyList(<<ObjectFoo, ObjectFoo>>)>>
          /\ request[i].classes = <<ComXFoo>>
    /\ request[1].next = 2
    /\ request[2].types = << <<"[">> \o W_object >>
    /\ frame[2] = EncodedAlone(2)


(***************************************************************************)
(* C25                                                                     *)
(***************************************************************************)
\* A call of the facade has ended in a failed result record.
CallFailed ==
    /\ pc = "done"
    /\ call.op = "invoke_service"
    /\ result.kind = "returned"
    /\ ~result.record.success

\* C25: a facade call that ends in a failed result leaves the cache of
\* handlers exactly as it was before the call.
C25_FailedCallKeepsCache == CallFailed => cache = call.cache_before

\* A failed call that made no call of a handler leaves the cache as it was,
\* and any failed call keeps the entries the cache had and adds at most the
\* handler of its own scheme.
C25_FailedCallAddsAtMostItsHandler ==
    CallFailed =>
        /\ call.dispatched = <<>> => cache = call.cache_before
        /\ \/ cache = call.cache_before
           \/ cache = Append(call.cache_before,
                             [k |-> ProtocolOf(call.dispatched[1].service_uri),
                              v |-> call.dispatched[1].handler])

\* A first call on a malformed endpoint has failed and its handler is in
\* the cache.
C25_HandlerKeptAfterFailure ==
    /\ CallFailed
    /\ call.cache_before = <<>>
    /\ cache = <<[k |-> W_dubbo, v |-> 1]>>
    /\ call.op = "invoke_service"
    /\ call.service_uri = <<"h">>


(***************************************************************************)
(* C26                                                                     *)
(***************************************************************************)
\* The scheme of the call of thread i, and whether a handler exists for it.
SchemeOf(i) == ProtocolOf(call[i].service_uri)

Supported(i) == SchemeOf(i) = W_dubbo

\* Thread i has a handler, and it is one created for the scheme of its call.
HasHandlerOfItsScheme(i) ==
    \E j \in 1..Len(pc) :
        /\ call[j].created = call[i].handler
        /\ call[j].created # 0
        /\ SchemeOf(j) = SchemeOf(i)

\* No thread has read an entry the cache does not hold.
NoMissingRead ==
    \A i \in 1..Len(pc) :
        pc[i] = "returned" =>
            result[i] # Returned(Failed("Service invocation exception: KeyError"))

\* The cache holds at most one handler per scheme, and never more handlers
\* exist than calls were made.
AtMostOnePerScheme ==
    /\ \A j, k \in 1..Len(cache) : cache[j].k = cache[k].k => j = k
    /\ handlers <= Len(pc)

AllReturned == \A i \in 1..Len(pc) : pc[i] = "returned"

\* C26 as amended: under any interleaving of concurrent invoke_service
\* calls, every call on a scheme that has a handler (dubbo) obtains a
\* handler created for its scheme, no read of the cache misses, at most a
\* second handler of a scheme exists beside the cached one, and once all
\* calls have returned the cache holds exactly one handler per supported
\* scheme used and none for any other.
C26_HandlerPerSupportedScheme ==
    /\ NoMissingRead
    /\ AtMostOnePerScheme
    /\ \A i \in 1..Len(pc) :
          /\ pc[i] = "invoke" => HasHandlerOfItsScheme(i)
          /\ (pc[i] = "returned" /\ Supported(i)) => HasHandlerOfItsScheme(i)
    /\ AllReturned =>
          \A i \in 1..Len(pc) :
              Cardinality({j \in 1..Len(cache) : cache[j].k = SchemeOf(i)})
                  = IF Supported(i) THEN 1 ELSE 0

\* C26 as stated: every call obtains a handler for its scheme, and once all
\* calls have returned the cache holds exactly one handler per scheme used.
C26_HandlerPerScheme ==
    /\ NoMissingRead
    /\ AtMostOnePerScheme
    /\ \A i \in 1..Len(pc) :
          pc[i] \in {"invoke", "returned"} => HasHandlerOfItsScheme(i)
    /\ AllReturned =>
          \A i \in 1..Len(pc) :
              Cardinality({j \in 1..Len(cache) : cache[j].k = SchemeOf(i)}) = 1

\* The lost update: two calls on the scheme dubbo have returned, each on a
\* handler of its own, and the cache holds the second one only.
C26_LostUpdate ==
    /\ AllReturned
    /\ handlers = 2
    /\ call[1].handler = 1
    /\ call[2].handler = 2
    /\ cache = <<[k |-> W_dubbo, v |-> 2]>>


(***************************************************************************)
(* C27                                                                     *)
(***************************************************************************)
\* The literal tag of a list of booleans, ints or texts.
LiteralTag(items) ==
    CASE items[1].t = "bool" -> <<"[", "b", "o", "o", "l", "e", "a", "n">>
      [] items[1].t = "int" -> <<"[", "i", "n", "t">>
      [] items[1].t = "str" -> <<"[", "s", "t", "r", "i", "n", "g">>

\* The position of the tag in listTypes, counted from 0.
ListTypeIndex(tag, listTypes) ==
    (CHOOSE j \in 1..Len(listTypes) : listTypes[j] = tag) - 1

RECURSIVE ListTypesAfter(_, _, _)
\* listTypes after the lists i.. of the arguments: each tag appended by the
\* first non-empty list that has it.
ListTypesAfter(arguments, i, listTypes) ==
    IF i > Len(arguments) THEN listTypes
    ELSE LET items == arguments[i].v
         IN  ListTypesAfter(arguments, i + 1,
                            IF items = <<>> \/ InSeq(LiteralTag(items), listTypes)
                            THEN listTypes
                            ELSE Append(listTypes, LiteralTag(items)))

RECURSIVE ListsAsStated(_, _, _)
\* The bytes of the lists i.. of the arguments as C27 states them: 'N' for an
\* empty list; else 0x70 + n, or 0x56 when n >= 7, then the tag in letters at
\* its first use and as its index after, then n for the long form, then the
\* elements.
ListsAsStated(arguments, i, listTypes) ==
    IF i > Len(arguments) THEN <<>>
    ELSE LET items == arguments[i].v
             n == Len(items)
             tag == LiteralTag(items)
             first == ~InSeq(tag, listTypes)
             written == IF first THEN EncodeStr(tag)
                        ELSE EncodeInt(PyInt(ListTypeIndex(tag, listTypes)))
             elements == EncodeArguments(Done([classes |-> <<>>, types |-> <<>>], <<>>),
                                         items, 1).out
         IN  IF n = 0 THEN <<78>> \o ListsAsStated(arguments, i + 1, listTypes)
             ELSE (IF n < 7 THEN <<112 + n>> \o written
                   ELSE <<86>> \o written \o EncodeInt(PyInt(n)))
                      \o elements
                      \o ListsAsStated(arguments, i + 1,
                                       IF first THEN Append(listTypes, tag)
                                       ELSE listTypes)

\* The frame whose arguments are the bytes `arguments`.
FrameOfArguments(arguments) ==
    LET tables == [classes |-> <<>>, types |-> <<>>]
    IN  AssembleFrame(AssembleBody(request.body, tables,
                                   ParameterTypesString(request.body),
                                   Done(tables, arguments)),
                      request.invoke_id).out

\* C27: within one request each list-type tag is written in letters by the
\* first list that uses it, which appends it to listTypes, and as its index
\* in listTypes by every later list of that tag; a list of n > 0 elements
\* writes 0x70 + n when n < 7 and otherwise 0x56, the tag or index, and n as
\* an integer; an empty list writes the one byte 'N' and leaves listTypes
\* alone.
C27_ListTagsAndHeaders ==
    (pc = "encoded" /\ \A i \in 1..Len(request.body.arguments) :
                           request.body.arguments[i].t = "list") =>
        /\ frame = FrameOfArguments(ListsAsStated(request.body.arguments, 1, <<>>))
        /\ request.types = ListTypesAfter(request.body.arguments, 1, <<>>)

\* A frame of three lists: a long list of ints, an empty list, and a short
\* list of ints that names its tag by the index 0.
C27_TagThenIndex ==
    /\ pc = "encoded"
    /\ request.body.arguments = <<PyList([i \in 1..7 |-> PyInt(25)]), PyList(<<>>),
                                  PyList(<<PyInt(25)>>)>>
    /\ request.types = << <<"[", "i", "n", "t">> >>
    /\ LET at == ReadFrame(frame).arguments_at
       IN  /\ SubSeq(frame, at, at + 6) = <<86, 4, 91, 105, 110, 116, 151>>
           /\ SubSeq(frame, at + 14, at + 17) = <<78, 113, 144, 169>>


(***************************************************************************)
(* C28                                                                     *)
(***************************************************************************)
\* A text longer than 0x3ff has been emitted.
LongTextEmitted ==
    pc = "emitted" /\ call.op = "encode_str" /\ call.length > 1023

\* The length the three bytes ahead of the characters state: hi * 256 + lo.
StatedChunkLength == result.record.prefix[2] * 256 + result.record.prefix[3]

\* C28: a text longer than 0x3ff is emitted as chunks of at most 0xffff
\* characters, the last one under [0x53, hi, lo] with hi and lo the two
\* bytes of its length, and the chunk lengths sum to the length of the
\* text. What is emitted is one chunk under 0x53: the length it states is
\* the length of the text, which is at most 0xffff.
C28_ChunkLengthsSum ==
    LongTextEmitted =>
        /\ Len(result.record.prefix) = 3
        /\ result.record.prefix[1] = 83
        /\ StatedChunkLength = call.length
        /\ result.record.characters = call.length
        /\ call.length <= 65535

\* Up to 0xffff characters the one chunk states the length of the text.
C28_OneChunkUpTo16Bits ==
    (LongTextEmitted /\ call.length <= 65535) =>
        /\ result.record.prefix = <<83, call.length \div 256, call.length % 256>>
        /\ result.record.characters = call.length

\* A text of 0x10000 characters is emitted under [0x53, 0, 0], all its
\* characters after it.
C28_LengthWraps ==
    /\ LongTextEmitted
    /\ call.length = 65536
    /\ result.record.prefix = <<83, 0, 0>>
    /\ result.record.characters = 65536


(***************************************************************************)
(* C29                                                                     *)
(***************************************************************************)
RECURSIVE AsEmitted(_)
\* The value a reader is to find for an argument value, each named object
\* with its own field names and values: an empty list is null, an ArrayList
\* with elementData is its elementData.
AsEmitted(value) ==
    IF value.t = "list"
    THEN IF value.v = <<>> THEN PyNone
         ELSE PyList([i \in 1..Len(value.v) |-> AsEmitted(value.v[i])])
    ELSE IF value.t = "obj"
    THEN IF value.path = JavaUtil(W_ArrayList) /\ HasKey(value, W_elementData)
         THEN AsEmitted(GetItem(value, W_elementData))
         ELSE Object(value.path,
                     [i \in 1..Len(value.v) |->
                         [k |-> value.v[i].k, v |-> AsEmitted(value.v[i].v)]])
    ELSE value

RECURSIVE NamedObjects(_)
\* The named objects a value gives, in the order of the encoding, each as
\* its path and its field names.
NamedObjects(value) ==
    IF value.t = "obj"
    THEN IF value.path = JavaUtil(W_ArrayList) /\ HasKey(value, W_elementData)
         THEN NamedObjects(GetItem(value, W_elementData))
         ELSE <<[path |-> value.path, fields |-> Keys(value)]>>
                  \o Join([i \in 1..Len(value.v) |-> NamedObjects(value.v[i].v)], <<>>)
    ELSE IF value.t = "list"
    THEN Join([i \in 1..Len(value.v) |-> NamedObjects(value.v[i])], <<>>)
    ELSE <<>>

\* Every named object among the arguments has the field names of the first
\* one of its path.
UniformPaths ==
    LET objects == NamedObjects(PyList(request.body.arguments))
    IN  \A i, j \in 1..Len(objects) :
            objects[i].path = objects[j].path => objects[i].fields = objects[j].fields

\* The frame reads back, under the class definitions it carries, as the
\* arguments that were encoded: every object instance has as many field
\* values as its class definition has names, and they are the values of
\* those names in their order.
ReadsBackAsEmitted ==
    /\ ReadFrame(frame).ok
    /\ ReadFrame(frame).arguments
           = [i \in 1..Len(request.body.arguments) |->
                 AsEmitted(request.body.arguments[i])]

\* C29: within one frame every emission of a named object of path p writes
\* exactly as many field values as the class definition of p in that frame
\* has field names, in the order of those names, for every argument the
\* coercion can produce, nested mappings under java.lang.Object included.
C29_FieldsAsDefined == pc = "encoded" => ReadsBackAsEmitted

\* When every object of a path has the field names of the first one, the
\* frame reads back as emitted.
C29_UniformPathsAsDefined == (pc = "encoded" /\ UniformPaths) => ReadsBackAsEmitted

\* A frame with two objects of path java.lang.Object, of one and of two
\* fields: a reader takes the second field value of the second object for
\* a second argument.
C29_TwoShapesOfOnePath ==
    /\ pc = "encoded"
    /\ call.params = PyDict(<< [k |-> W_name, v |-> DictName],
                               [k |-> W_child, v |-> DictFoo] >>)
    /\ NamedObjects(PyList(request.body.arguments))
           = << [path |-> ComXFoo, fields |-> <<W_name, W_child>>],
                [path |-> JavaLang(W_Object), fields |-> <<W_name>>],
                [path |-> JavaLang(W_Object), fields |-> <<W_name, W_age>>] >>
    /\ Len(request.body.arguments) = 1
    /\ Len(ReadFrame(frame).arguments) = 2
    /\ ReadFrame(frame).arguments[2] = PyInt(25)


(***************************************************************************)
(* C30                                                                     *)
(***************************************************************************)
\* _invoke has ended with exactly one message: a text, or the JSON of a
\* record of a successful invocation.
OneMessage ==
    /\ result.kind = "yielded"
    /\ Len(result.messages) = 1
    /\ \/ result.messages[1].kind = "text"
       \/ /\ result.messages[1].kind = "json"
          /\ result.messages[1].record.success

\* The message _invoke yields after the facade call is the JSON of the
\* record when the invocation succeeded, and an error text when it failed
\* or raised.
MessageOfResult ==
    (pc = "done" /\ pc' = "finished") =>
        IF result.kind = "returned" /\ result.record.success
        THEN result' = Yielded(<<JsonMessage(result.record)>>)
        ELSE /\ result'.kind = "yielded"
             /\ Len(result'.messages) = 1
             /\ result'.messages[1].kind = "text"

\* C30: for every tool_parameters and every credentials the validation
\* accepts, _invoke yields exactly one message and finishes without
\* raising: an error message when the input validation, the parameter
\* processing or the invocation fails, the JSON of the result record when
\* the invocation succeeds.
C30_OneMessageNoRaise ==
    /\ [](pc = "finished" => OneMessage)
    /\ [][MessageOfResult]_vars

\* The same for the invocations whose credentials hold a timeout int()
\* accepts.
C30_OneMessageOnceTimeoutRead ==
    /\ []((pc = "finished" /\ result.kind # "raised") => OneMessage)
    /\ [][MessageOfResult]_vars

\* _invoke has raised on credentials the validation accepted.
C30_InvokeRaised ==
    /\ pc = "finished"
    /\ call.runtime
    /\ ValidateTimeout(call.timeout) = ""
    /\ result.kind = "raised"

=============================================================================
